---- MODULE Spec2Model ----
(***************************************************************************)
(* Observables mixin of the ClusterModel package (model_obs.py): spectra,  *)
(* projected profiles, fluxes and sky maps of a galaxy-cluster model.      *)
(*                                                                         *)
(* Quantities are integers.  A 3D radius that is the square root of a sum  *)
(* of squares is carried exactly as 100 times its square ("q"), so that    *)
(* the 0.9 and 1.1 margin factors (0.81 and 1.21 on squares) stay exact.   *)
(* Multiplicative constants (4 pi, 2 pi, pi/180) are dropped from the      *)
(* integrals; 1/(4 pi D_lum^2) and D_ang^2 are positive integer factors.   *)
(* Every operation returns a record [err, log, v]: the exception raised    *)
(* ("none" when it returns), the sequence of collaborator calls it made,   *)
(* and the value returned.                                                 *)
(***************************************************************************)
EXTENDS Integers, Sequences, FiniteSets, TLC

VARIABLES self, pc, call, ret

vars == <<self, pc, call, ret>>

(***************************************************************************)
(* Bounds of the model.                                                    *)
(***************************************************************************)
MaxLen == 2

(***************************************************************************)
(* Python values.                                                          *)
(***************************************************************************)
\* An argument: None, a scalar Quantity whose .value is a python float or a
\* python integer, or a Quantity holding a 1D array.  val and arr hold the
\* amount in kpc or GeV; scale is the number of the Quantity's own units in
\* one kpc or GeV, so that .value is the amount times scale.
NoneQ == [kind |-> "None", val |-> 0, arr |-> <<>>, scale |-> 1]

Scalar(k, x) == [kind |-> k, val |-> x, arr |-> <<>>, scale |-> 1]

Array(a) == [kind |-> "ndarray", val |-> 0, arr |-> a, scale |-> 1]

Float(x) == Scalar("float", x)

\* The same Quantity expressed in MeV or in pc, 1000 of them in one GeV or
\* kpc: Emin=1000*u.MeV, Rmax=6000*u.pc.
InMilli(q) == [q EXCEPT !.scale = 1000]

NoVal == [kind |-> "None", val |-> 0, arr |-> <<>>, scale |-> 1]

\* A number that may be a ratio, an infinity or NaN (d = 0).
Num(n) == [n |-> n, d |-> 1]

NaN == [n |-> 0, d |-> 0]

IsNaN(x) == x.d = 0 /\ x.n = 0

IsZero(x) == x.d # 0 /\ x.n = 0

NumDiv(x, f) ==
    IF x.d = 0 \/ f.d = 0 THEN NaN
    ELSE IF f.n = 0 THEN (IF x.n = 0 THEN NaN ELSE [n |-> 1, d |-> 0])
    ELSE [n |-> x.n * f.d, d |-> x.d * f.n]

\* np.amin
RECURSIVE SeqMin(_)
SeqMin(s) ==
    IF Len(s) = 1 THEN s[1]
    ELSE LET m == SeqMin(Tail(s)) IN IF s[1] < m THEN s[1] ELSE m

RECURSIVE SeqMax(_)
SeqMax(s) ==
    IF Len(s) = 1 THEN s[1]
    ELSE LET m == SeqMax(Tail(s)) IN IF s[1] > m THEN s[1] ELSE m

RECURSIVE SeqSum(_)
SeqSum(s) == IF s = <<>> THEN 0 ELSE s[1] + SeqSum(Tail(s))

(***************************************************************************)
(* Sequencing of statements: an exception ends the operation, and the log  *)
(* keeps the calls made before it.                                         *)
(***************************************************************************)
\* A collaborator call in the log: its name and what it was called on.
Ev(e, d) == <<e, d>>

Ok(v) == [err |-> "none", log |-> <<>>, v |-> v]

Do(e, d, v) == [err |-> "none", log |-> <<Ev(e, d)>>, v |-> v]

Raise(kind) == [err |-> kind, log |-> <<>>, v |-> NoVal]

\* The element of a singleton.
The(S) == CHOOSE y \in S : TRUE

\* Statement s, then the statements K of the value s left: an exception of s
\* ends the operation, and its calls stay in the log.
Step(s, K(_)) ==
    The({IF a.err # "none" THEN [err |-> a.err, log |-> a.log, v |-> NoVal]
         ELSE The({[err |-> b.err, log |-> a.log \o b.log, v |-> b.v] : b \in {K(a.v)}}) :
            a \in {s}})

Count(log, e) == Cardinality({i \in 1..Len(log) : log[i][1] = e})

Positions(log, e) == {i \in 1..Len(log) : log[i][1] = e}

(***************************************************************************)
(* model_tools: sampling grids and integrators.                            *)
(***************************************************************************)
GridRatio == 2

RECURSIVE GridFrom(_, _, _)
GridFrom(low, high, ratio) ==
    IF low >= high THEN <<high>>
    ELSE <<low>> \o GridFrom(low * ratio, high, ratio)

\* An infinite radius or angle (np.inf): beyond every finite bound of the model.
Infinity == 100

\* sampling_array on radii or energies: a log-spaced grid, both ends included.
\* The number of points to an infinite bound is not an integer.
sampling_array(low, high) ==
    IF low <= 0 \/ high <= low THEN Raise("DomainError")
    ELSE IF high >= Infinity THEN Raise("OverflowError")
    ELSE Do("grid", <<low, high>>, GridFrom(low, high, GridRatio))

\* sampling_array on composite 3D radii carried as 100 r^2.
sampling_array_sq(low, high) ==
    IF low <= 0 \/ high <= low THEN Raise("DomainError")
    ELSE IF high >= 100 * Infinity * Infinity THEN Raise("OverflowError")
    ELSE Do("grid", <<low, high>>, GridFrom(low, high, GridRatio * GridRatio))

Sq100(r) == 100 * r * r

SqGrid(g) == [i \in 1..Len(g) |-> Sq100(g[i])]

\* Twice the trapezoidal integral of y over x.
RECURSIVE Trapz(_, _)
Trapz(y, x) ==
    IF Len(x) <= 1 THEN 0
    ELSE (y[1] + y[2]) * (x[2] - x[1]) + Trapz(Tail(y), Tail(x))

\* spherical_integration of one radial function: Trapz of r^2 f(r).
SphInt(f, r) == Trapz([j \in 1..Len(r) |-> r[j] * r[j] * f[j]], r)

\* spherical_integration; a 2D rate (energy x radius) is integrated per energy.
spherical_integration(rate, r) ==
    Do("sphint", <<r[1], r[Len(r)]>>, [i \in 1..Len(rate) |-> SphInt(rate[i], r)])

\* energy_integration of a 2D rate (energy x radius): one value per radius.
EInt(f, eng, Energy_density) ==
    Trapz([i \in 1..Len(eng) |-> IF Energy_density THEN eng[i] * f[i] ELSE f[i]], eng)

energy_integration_2d(rate, eng, Energy_density) ==
    Do("eint", <<eng[1], eng[Len(eng)]>>,
       [j \in 1..Len(rate[1]) |->
           EInt([i \in 1..Len(eng) |-> rate[i][j]], eng, Energy_density)])

\* energy_integration of a spectrum: a scalar.
energy_integration(spec, eng, Energy_density) ==
    Do("eint", <<eng[1], eng[Len(eng)]>>, EInt(spec, eng, Energy_density))

\* The sample of f (tabulated on the 3D grid r3d, as 100 r^2) at composite
\* radius q: the last knot not above q.
LosAt(f, r3d, q) ==
    LET below == {j \in 1..Len(r3d) : r3d[j] <= q}
    IN f[CHOOSE j \in below : \A k \in below : k <= j]

LosCovered(r3d, radius, los) ==
    \A a \in 1..Len(radius) : \A b \in 1..Len(los) :
        LET q == Sq100(radius[a]) + Sq100(los[b])
        IN r3d[1] <= q /\ q <= r3d[Len(r3d)]

LosProj(f, r3d, radius, los) ==
    [a \in 1..Len(radius) |->
        Trapz([b \in 1..Len(los) |->
                  LosAt(f, r3d, Sq100(radius[a]) + Sq100(los[b]))], los)]

\* los_integration_1dfunc: the projection at each projected radius; a composite
\* radius outside the sampled 3D range raises.
los_integration_1dfunc(f, r3d, radius, los) ==
    IF ~LosCovered(r3d, radius, los) THEN Raise("DomainError")
    ELSE Do("los", <<radius[1], radius[Len(radius)]>>, LosProj(f, r3d, radius, los))

\* R_truncation is [inf, v]: np.inf or a finite radius.
Beyond(r, Rtrunc) == ~Rtrunc.inf /\ r > Rtrunc.v

\* cylindrical_integration: per energy, project on r2d, zero beyond Rtrunc,
\* integrate over the disk.  The caller uses the result as a differential
\* spectrum, one value per energy.
cylindrical_integration(rate, energy, r3d, r2d, los, Rtrunc) ==
    IF ~LosCovered(r3d, r2d, los) THEN Raise("DomainError")
    ELSE Do("cylint", <<r2d[1], r2d[Len(r2d)]>>,
            [i \in 1..Len(rate) |->
                LET proj == LosProj(rate[i], r3d, r2d, los)
                    cut == [a \in 1..Len(r2d) |->
                               IF Beyond(r2d[a], Rtrunc) THEN 0 ELSE proj[a]]
                IN Trapz([a \in 1..Len(r2d) |-> r2d[a] * cut[a]], r2d)])

\* trapz_loglog of 2 pi r f(r) over r.
trapz_loglog_disk(f, r) ==
    Do("disk", [x |-> r, y |-> f], Trapz([a \in 1..Len(r) |-> r[a] * f[a]], r))

(***************************************************************************)
(* scipy interp1d(kind='cubic'): exact at the knots; between two knots the *)
(* cubic through the four nearest samples, taken at the half step of the   *)
(* log-spaced grid.  Values are returned times ItplDen.  A point outside   *)
(* the knots raises (bounds_error).                                        *)
(***************************************************************************)
ItplDen == 16

ItplAt(xk, yk, x) ==
    LET n == Len(xk)
        j == CHOOSE i \in 1..n : xk[i] <= x /\ (i = n \/ x < xk[i + 1])
    IN IF xk[j] = x THEN ItplDen * yk[j]
       ELSE IF n < 4 THEN 8 * yk[j] + 8 * yk[j + 1]
       ELSE IF j = 1 THEN 5 * yk[1] + 15 * yk[2] - 5 * yk[3] + yk[4]
       ELSE IF j = n - 1
            THEN yk[n - 3] - 5 * yk[n - 2] + 15 * yk[n - 1] + 5 * yk[n]
       ELSE 9 * yk[j] + 9 * yk[j + 1] - yk[j - 1] - yk[j + 2]

interp1d(xk, yk) == Do("itpl_build", [x |-> xk, y |-> yk], [x |-> xk, y |-> yk])

itpl_call(itpl, xs) ==
    IF \E a \in 1..Len(xs) : xs[a] < itpl.x[1] \/ xs[a] > itpl.x[Len(itpl.x)]
    THEN Raise("ValueError")
    ELSE Do("itpl_eval", xs, [a \in 1..Len(xs) |-> ItplAt(itpl.x, itpl.y, xs[a])])

(***************************************************************************)
(* Collaborators of the Cluster object: emission rates and EBL absorption. *)
(***************************************************************************)
RateWeight(fn, flavor) ==
    CASE fn = "get_rate_gamma_ray" -> 2
      [] fn = "get_rate_ic" -> 3
      [] fn = "get_rate_synchrotron" -> 2
      [] fn = "get_rate_neutrino" /\ flavor = "all" -> 3
      [] fn = "get_rate_neutrino" /\ flavor = "numu" -> 2
      [] fn = "get_rate_neutrino" /\ flavor = "nue" -> 1
      [] OTHER -> 1

RateAt(fn, flavor, E, q) ==
    RateWeight(fn, flavor) * (IF E < 4 THEN 2 ELSE 1)
        * (IF q < 400 THEN 3 ELSE IF q < 3600 THEN 2 ELSE 1)

\* self.get_rate_*(energy, radius): the rate on the grid, energy x radius.
\* The 3D radii are given as 100 r^2.
get_rate(fn, flavor, eng, r3d) ==
    Do("rate", [fn |-> fn, flavor |-> flavor, n |-> Len(r3d)],
       [i \in 1..Len(eng) |-> [j \in 1..Len(r3d) |-> RateAt(fn, flavor, eng[i], r3d[j])]])

\* cluster_spectra.get_ebl_absorb: the factor per energy, times 4.
get_ebl_absorb(eng, redshift, model) ==
    Do("absorb", [model |-> model, z |-> redshift],
       [i \in 1..Len(eng) |-> IF eng[i] < 4 THEN 4 ELSE IF eng[i] < 16 THEN 2 ELSE 1])

(***************************************************************************)
(* The Cluster object the Observables methods read.                        *)
(***************************************************************************)
\* A truncation radius or angle: whether it is infinite, its value, and whether
\* the attribute is the object np.inf itself rather than a Quantity.
Finite(x) == [inf |-> FALSE, v |-> x, is_np_inf |-> FALSE]

Infinite == [inf |-> TRUE, v |-> Infinity, is_np_inf |-> TRUE]

\* np.inf * u.kpc: an infinite Quantity, which is another object than np.inf.
InfiniteQuantity == [inf |-> TRUE, v |-> Infinity, is_np_inf |-> FALSE]

\* The rate methods every call site but one names; get_rate_ic_ray is named by
\* a single call site and may or may not be provided.
RateMethods ==
    {"get_rate_gamma_ray", "get_rate_neutrino", "get_rate_ic", "get_rate_synchrotron"}

Clusters ==
    {[Rmin |-> 1, R500 |-> 4, R_truncation |-> t.R, theta_truncation |-> t.th,
      D_ang |-> 2, D_lum |-> 2, redshift |-> 1, EBL_model |-> m,
      Epmin |-> 10, Epmax |-> 16, methods |-> RateMethods \cup x] :
        t \in {[R |-> Finite(4), th |-> Finite(2)], [R |-> Infinite, th |-> Infinite],
               [R |-> InfiniteQuantity, th |-> InfiniteQuantity]},
        m \in {"none", "dominguez"},
        x \in {{}, {"get_rate_ic_ray"}}}

\* x / (4 pi D_lum^2), in units where the result is an integer.
LumScale == 8

ToFlux(slf, x) == (x * LumScale) \div (slf.D_lum * slf.D_lum)

\* The value of an optional argument.
OrDefault(arg, default) == IF arg.kind = "None" THEN default ELSE arg.val

\* A faulty list of integral types, which lets 'projected' through (C1).
ok_list_any == {"spherical", "cylindrical", "projected"}

ok_list == {"spherical", "cylindrical"}

\* dN_dEdSdt * absorb when an EBL model is set (spectrum operations).
ebl_spectrum(slf, energy, spec) ==
    IF slf.EBL_model # "none"
    THEN Step(get_ebl_absorb(energy, slf.redshift, slf.EBL_model), LAMBDA absorb :
         Ok([i \in 1..Len(energy) |-> spec[i] * absorb[i]]))
    ELSE Ok(spec)

\* A faulty absorption step, which asks for the factor whatever the model (C4).
ebl_rate_any_model(slf, eng, rate) ==
    Step(get_ebl_absorb(eng, slf.redshift, slf.EBL_model), LAMBDA absorb :
    Ok([i \in 1..Len(eng) |-> [j \in 1..Len(rate[i]) |-> rate[i][j] * absorb[i]]]))

\* dN_dEdVdt * replicate_array(absorb, len(r3d)) when an EBL model is set.
ebl_rate(slf, eng, rate) ==
    IF slf.EBL_model # "none"
    THEN Step(get_ebl_absorb(eng, slf.redshift, slf.EBL_model), LAMBDA absorb :
         Ok([i \in 1..Len(eng) |-> [j \in 1..Len(rate[i]) |-> rate[i][j] * absorb[i]]]))
    ELSE Ok(rate)

\* A faulty composite radius, which leaves the depth along the line of sight
\* out (C26).
Hyp2_projected(a, b) == 100 * (b * b)

\* The square of sqrt(a^2 + b^2), times 100.
Hyp2(a, b) == 100 * (a * a + b * b)

\* A faulty rate call, which evaluates the rate a second time (C9).
call_rate_again(slf, site, eng, r3d) ==
    IF site.fn \notin slf.methods THEN Raise("AttributeError")
    ELSE Step(get_rate(site.fn, site.flavor, eng, r3d), LAMBDA first :
         get_rate(site.fn, site.flavor, eng, r3d))

\* self.get_rate_*: a method the Cluster class does not provide raises.
call_rate(slf, site, eng, r3d) ==
    IF site.fn \notin slf.methods THEN Raise("AttributeError")
    ELSE get_rate(site.fn, site.flavor, eng, r3d)

(***************************************************************************)
(* Spectra.  A site names the rate method the source calls, the flavor it  *)
(* passes, and whether the source applies the EBL absorption there.        *)
(***************************************************************************)
spectrum(slf, site, energy, Rmin, Rmax, type_integral, Rmin_los, NR500_los) ==
    IF type_integral \notin ok_list THEN Raise("ValueError")
    ELSE
    LET rmin == OrDefault(Rmin, slf.Rmin)
        rmax == OrDefault(Rmax, slf.R500)
        rlos == OrDefault(Rmin_los, slf.Rmin)
        Rmax3d == Hyp2(NR500_los * slf.R500, rmax)
        Rmin3d == Hyp2(rlos, rmin)
        \* to flux, then the EBL absorption, then return
        finish(dN_dEdt) ==
            Step(Ok([i \in 1..Len(energy) |-> ToFlux(slf, dN_dEdt[i])]), LAMBDA dN_dEdSdt :
            Step(IF site.ebl THEN ebl_spectrum(slf, energy, dN_dEdSdt) ELSE Ok(dN_dEdSdt),
                 LAMBDA y : Ok([x |-> energy, y |-> y])))
    IN IF type_integral = "spherical"
       THEN Step(sampling_array(rmin, rmax), LAMBDA rad :
            Step(call_rate(slf, site, energy, SqGrid(rad)), LAMBDA rate :
            Step(spherical_integration(rate, rad), finish)))
       \* Rmin3d*0.9, Rmax3d*1.1
       ELSE Step(sampling_array_sq((Rmin3d * 81) \div 100, (Rmax3d * 121) \div 100),
                 LAMBDA r3d :
            Step(sampling_array(rlos, NR500_los * slf.R500), LAMBDA los :
            Step(sampling_array(rmin, rmax), LAMBDA r2d :
            Step(call_rate(slf, site, energy, r3d), LAMBDA rate :
            Step(cylindrical_integration(rate, energy, r3d, r2d, los, slf.R_truncation),
                 finish)))))

gamma_site == [fn |-> "get_rate_gamma_ray", flavor |-> "-", ebl |-> TRUE]

neutrino_site(flavor) == [fn |-> "get_rate_neutrino", flavor |-> flavor, ebl |-> FALSE]

ic_site == [fn |-> "get_rate_ic", flavor |-> "-", ebl |-> TRUE]

synchrotron_site == [fn |-> "get_rate_synchrotron", flavor |-> "-", ebl |-> FALSE]

get_gamma_spectrum(slf, energy, Rmin, Rmax, type_integral, Rmin_los, NR500_los) ==
    spectrum(slf, gamma_site, energy, Rmin, Rmax, type_integral, Rmin_los, NR500_los)

get_neutrino_spectrum(slf, energy, Rmin, Rmax, type_integral, NR500_los, Rmin_los, flavor) ==
    spectrum(slf, neutrino_site(flavor), energy, Rmin, Rmax, type_integral, Rmin_los,
             NR500_los)

get_ic_spectrum(slf, energy, Rmin, Rmax, type_integral, Rmin_los, NR500_los) ==
    spectrum(slf, ic_site, energy, Rmin, Rmax, type_integral, Rmin_los, NR500_los)

\* Photon energy h nu of a frequency.
const_h == 2

\* Synchrotron: the rate is taken at the energies h nu, no absorption is applied,
\* and the result is dN_dEdSdt * energy^2 / frequency.
get_synchrotron_spectrum(slf, frequency, Rmin, Rmax, type_integral, Rmin_los, NR500_los) ==
    Step(Ok([i \in 1..Len(frequency) |-> const_h * frequency[i]]), LAMBDA energy :
    Step(spectrum(slf, synchrotron_site, energy, Rmin, Rmax, type_integral, Rmin_los,
                  NR500_los), LAMBDA s :
    Ok([x |-> frequency,
        y |-> [i \in 1..Len(frequency) |->
                  (s.y[i] * energy[i] * energy[i]) \div frequency[i]]])))

(***************************************************************************)
(* Projected profiles.                                                     *)
(***************************************************************************)
\* A faulty truncation, which leaves the profile as it is (C5).
truncate_off(values, radius, Rtrunc) == Do("trunc", Rtrunc, values)

\* values[radius > self._R_truncation] = 0
truncate(values, radius, Rtrunc) ==
    Do("trunc", Rtrunc,
       [a \in 1..Len(radius) |-> IF Beyond(radius[a], Rtrunc) THEN 0 ELSE values[a]])

\* A faulty unit, which is the particle flux whatever Energy_density (C13).
EnergyUnit_particle(Energy_density) == "cm-2 s-1"

EnergyUnit(Energy_density) == IF Energy_density THEN "GeV cm-2 s-1" ELSE "cm-2 s-1"

ProfileUnit(Energy_density) ==
    IF Energy_density THEN "GeV cm-2 s-1 sr-1" ELSE "cm-2 s-1 sr-1"

profile(slf, site, radius, Emin, Emax, Energy_density, Rmin_los, NR500_los) ==
    LET emin == OrDefault(Emin, slf.Epmin \div 10)
        emax == OrDefault(Emax, slf.Epmax)
        rlos == OrDefault(Rmin_los, slf.Rmin)
        Rmax3d == Hyp2(NR500_los * slf.R500, SeqMax(radius))
        Rmin3d == Hyp2(rlos, SeqMin(radius))
    IN Step(sampling_array(emin, emax), LAMBDA eng :
       Step(sampling_array_sq((Rmin3d * 81) \div 100, (Rmax3d * 121) \div 100),
            LAMBDA r3d :
       Step(sampling_array(rlos, NR500_los * slf.R500), LAMBDA los :
       Step(call_rate(slf, site, eng, r3d), LAMBDA rate :
       Step(IF site.ebl THEN ebl_rate(slf, eng, rate) ELSE Ok(rate), LAMBDA absorbed :
       Step(energy_integration_2d(absorbed, eng, Energy_density), LAMBDA dN_dVdt :
       Step(los_integration_1dfunc(dN_dVdt, r3d, radius, los), LAMBDA proj :
       Step(truncate(proj, radius, slf.R_truncation), LAMBDA cut :
       Ok([x |-> radius,
           y |-> [a \in 1..Len(radius) |->
                     Num(ToFlux(slf, cut[a] * slf.D_ang * slf.D_ang))],
           unit |-> ProfileUnit(Energy_density)])))))))))

get_gamma_profile(slf, radius, Emin, Emax, Energy_density, Rmin_los, NR500_los) ==
    profile(slf, gamma_site, radius, Emin, Emax, Energy_density, Rmin_los, NR500_los)

get_neutrino_profile(slf, radius, Emin, Emax, Energy_density, Rmin_los, NR500_los, flavor) ==
    profile(slf, neutrino_site(flavor), radius, Emin, Emax, Energy_density, Rmin_los,
            NR500_los)

get_ic_profile(slf, radius, Emin, Emax, Energy_density, Rmin_los, NR500_los) ==
    profile(slf, ic_site, radius, Emin, Emax, Energy_density, Rmin_los, NR500_los)

get_synchrotron_profile(slf, radius, freq0, Rmin_los, NR500_los) ==
    LET rlos == OrDefault(Rmin_los, slf.Rmin)
        eng0 == const_h * freq0
        Rmax3d == Hyp2(NR500_los * slf.R500, SeqMax(radius))
        Rmin3d == Hyp2(rlos, SeqMin(radius))
    IN Step(sampling_array_sq((Rmin3d * 81) \div 100, (Rmax3d * 121) \div 100),
            LAMBDA r3d :
       Step(sampling_array(rlos, NR500_los * slf.R500), LAMBDA los :
       Step(call_rate(slf, synchrotron_site, <<eng0>>, r3d), LAMBDA rate :
       Step(los_integration_1dfunc(rate[1], r3d, radius, los), LAMBDA proj :
       Step(truncate(proj, radius, slf.R_truncation), LAMBDA cut :
       Ok([x |-> radius,
           y |-> [a \in 1..Len(radius) |->
                     Num((ToFlux(slf, cut[a] * slf.D_ang * slf.D_ang) * eng0 * eng0)
                             \div freq0)],
           unit |-> "Jy sr-1"]))))))

(***************************************************************************)
(* Fluxes: the dispatch between scalar and array bounds.                   *)
(***************************************************************************)
\* type(q.value) == float
is_float(q) == q.kind = "float"

\* type(q.value) == np.ndarray
is_ndarray(q) == q.kind = "ndarray"

\* if arg is None: arg = default
Defaulted(arg, default) == IF arg.kind = "None" THEN Float(default) ELSE arg

\* A faulty check of the bounds, which lets two arrays through (C2).
both_arrays_off(Emin, Rmax) == FALSE

\* if type(Emin.value) == np.ndarray and type(Rmax.value) == np.ndarray: raise
both_arrays(Emin, Rmax) == is_ndarray(Emin) /\ is_ndarray(Rmax)

Unassigned == [set |-> FALSE, y |-> <<>>, shape |-> "none", unit |-> "none"]

Skip == Ok(Unassigned)

\* flux = ... : the local variable flux is bound.
Assign(path, y, shape, unit) ==
    Do("assign", path, [set |-> TRUE, y |-> y, shape |-> shape, unit |-> unit])

\* flux[i] = ... for every i: the elements of the bound array.
Fill(zeros, y) == Ok([zeros EXCEPT !.y = y])

\* The unit of a sampling grid is the unit of the bound it starts from.
grid_unit(low) == low.scale

\* grid.to_value(unit), and grid.value with the grid's own unit: the bare
\* numbers handed to an interpolant.  A unit is the number of them in one kpc
\* or GeV: 'kpc' is 1.
to_value(xs, unit) == Do("to_value", unit, [a \in 1..Len(xs) |-> xs[a] * unit])

\* A faulty loop, which integrates every entry from the first element of Emin
\* (C16).
RECURSIVE energy_loop_first(_, _, _, _, _)
energy_loop_first(itpl, Emin, emax, Energy_density, i) ==
    IF i > Len(Emin.arr) THEN Ok(<<>>)
    ELSE Step(sampling_array(Emin.arr[1], emax), LAMBDA eng_i :
         Step(to_value(eng_i, grid_unit(Emin)), LAMBDA xs :
         Step(itpl_call(itpl, xs), LAMBDA dN_dEdSdt_i :
         Step(energy_integration(dN_dEdSdt_i, eng_i, Energy_density), LAMBDA flux_i :
         Step(energy_loop_first(itpl, Emin, emax, Energy_density, i + 1), LAMBDA rest :
         Ok(<<flux_i>> \o rest))))))

\* for i in range(len(Emin)): resample the interpolated spectrum from Emin[i],
\* dN_dEdSdt_i = itpl(eng_i.value).
RECURSIVE energy_loop(_, _, _, _, _)
energy_loop(itpl, Emin, emax, Energy_density, i) ==
    IF i > Len(Emin.arr) THEN Ok(<<>>)
    ELSE Step(sampling_array(Emin.arr[i], emax), LAMBDA eng_i :
         Step(to_value(eng_i, grid_unit(Emin)), LAMBDA xs :
         Step(itpl_call(itpl, xs), LAMBDA dN_dEdSdt_i :
         Step(energy_integration(dN_dEdSdt_i, eng_i, Energy_density), LAMBDA flux_i :
         Step(energy_loop(itpl, Emin, emax, Energy_density, i + 1), LAMBDA rest :
         Ok(<<flux_i>> \o rest))))))

\* for i in range(len(Rmax)): spherical integral of the interpolated rate,
\* itpl(rad_i.to_value('kpc')).
RECURSIVE spherical_loop(_, _, _, _, _)
spherical_loop(slf, itpl, rmin, Rmax, i) ==
    IF i > Len(Rmax) THEN Ok(<<>>)
    ELSE Step(sampling_array(rmin, Rmax[i]), LAMBDA rad_i :
         Step(to_value(rad_i, 1), LAMBDA xs :
         Step(itpl_call(itpl, xs), LAMBDA dN_dVdt_i :
         Step(Do("sphint", <<rmin, Rmax[i]>>, SphInt(dN_dVdt_i, rad_i)), LAMBDA lum_i :
         Step(spherical_loop(slf, itpl, rmin, Rmax, i + 1), LAMBDA rest :
         Ok(<<ToFlux(slf, lum_i)>> \o rest))))))

\* A faulty loop, which integrates every entry out to the last element of Rmax
\* (C17).
RECURSIVE cylindrical_loop_last(_, _, _, _)
cylindrical_loop_last(itpl, Rmin, Rmax, i) ==
    IF i > Len(Rmax) THEN Ok(<<>>)
    ELSE Step(sampling_array(Rmin.val, Rmax[Len(Rmax)]), LAMBDA rad_i :
         Step(to_value(rad_i, grid_unit(Rmin)), LAMBDA xs :
         Step(itpl_call(itpl, xs), LAMBDA proj_i :
         Step(trapz_loglog_disk(proj_i, rad_i), LAMBDA flux_i :
         Step(cylindrical_loop_last(itpl, Rmin, Rmax, i + 1), LAMBDA rest :
         Ok(<<flux_i>> \o rest))))))

\* for i in range(len(Rmax)): disk integral of the interpolated projection,
\* itpl(rad_i.value).
RECURSIVE cylindrical_loop(_, _, _, _)
cylindrical_loop(itpl, Rmin, Rmax, i) ==
    IF i > Len(Rmax) THEN Ok(<<>>)
    ELSE Step(sampling_array(Rmin.val, Rmax[i]), LAMBDA rad_i :
         Step(to_value(rad_i, grid_unit(Rmin)), LAMBDA xs :
         Step(itpl_call(itpl, xs), LAMBDA proj_i :
         Step(trapz_loglog_disk(proj_i, rad_i), LAMBDA flux_i :
         Step(cylindrical_loop(itpl, Rmin, Rmax, i + 1), LAMBDA rest :
         Ok(<<flux_i>> \o rest))))))

\* A faulty scalar case, which answers a zero flux when the spectrum fails
\* (C30).
flux_scalar_default(slf, site, Emin, emax, Energy_density, Rmin, Rmax, type_integral, Rmin_los, NR500_los) ==
    LET energy == sampling_array(Emin.val, emax)
        spec == spectrum(slf, site, energy.v, Rmin, Rmax, type_integral, Rmin_los, NR500_los)
    IN IF energy.err # "none" THEN energy
       ELSE IF spec.err # "none"
            THEN Assign("scalar", <<0>>, "scalar", EnergyUnit(Energy_density))
       ELSE Step(spec, LAMBDA sp :
            Step(energy_integration(sp.y, sp.x, Energy_density), LAMBDA integral :
            Assign("scalar", <<integral>>, "scalar", EnergyUnit(Energy_density))))

\* Case of scalar quantities.
flux_scalar(slf, site, Emin, emax, Energy_density, Rmin, Rmax, type_integral, Rmin_los, NR500_los) ==
    Step(sampling_array(Emin.val, emax), LAMBDA energy :
    Step(spectrum(slf, site, energy, Rmin, Rmax, type_integral, Rmin_los, NR500_los),
         LAMBDA spec :
    Step(energy_integration(spec.y, spec.x, Energy_density), LAMBDA integral :
    Assign("scalar", <<integral>>, "scalar", EnergyUnit(Energy_density)))))

\* Case of energy array.
flux_energy_array(slf, site, Emin, emax, Energy_density, Rmin, Rmax, type_integral, Rmin_los, NR500_los) ==
    Step(sampling_array(SeqMin(Emin.arr), emax), LAMBDA energy :
    Step(spectrum(slf, site, energy, Rmin, Rmax, type_integral, Rmin_los, NR500_los),
         LAMBDA spec :
    Step(Assign("energy", [i \in 1..Len(Emin.arr) |-> 0], "array",
                EnergyUnit(Energy_density)), LAMBDA zeros :
    Step(to_value(spec.x, grid_unit(Emin)), LAMBDA xk :
    Step(interp1d(xk, spec.y), LAMBDA itpl :
    Step(energy_loop(itpl, Emin, emax, Energy_density, 1), LAMBDA y :
    Fill(zeros, y)))))))

\* A faulty range, which leaves the margins out of the bounds (C19).
array_r3d_bounds_bare(slf, rlos, rmin, top, NR500_los) ==
    [Rmin3d |-> Hyp2(rlos, rmin), Rmax3d |-> Hyp2(NR500_los * slf.R500, top)]

\* Rmax3d = np.sqrt(...)*1.1, Rmin3d = np.sqrt(...)*0.9: the 3D range of the
\* cylindrical radius-array case, as 100 r^2.
array_r3d_bounds(slf, rlos, rmin, top, NR500_los) ==
    [Rmin3d |-> (Hyp2(rlos, rmin) * 81) \div 100,
     Rmax3d |-> (Hyp2(NR500_los * slf.R500, top) * 121) \div 100]

\* Case of radius array.
flux_radius_array(slf, site, Emin, emax, Energy_density, Rmin, Rmax, type_integral, Rmin_los, NR500_los) ==
    LET rmin == Rmin.val
        rlos == Rmin_los.val
        top == SeqMax(Rmax.arr)
        spherical == type_integral = "spherical"
        Rmax3d == array_r3d_bounds(slf, rlos, rmin, top, NR500_los).Rmax3d
        Rmin3d == array_r3d_bounds(slf, rlos, rmin, top, NR500_los).Rmin3d
    IN Step(sampling_array(Emin.val, emax), LAMBDA eng :
       Step(IF spherical THEN sampling_array(rmin, top)
            ELSE sampling_array_sq(Rmin3d, Rmax3d), LAMBDA r3d :
       Step(sampling_array(rlos, NR500_los * slf.R500), LAMBDA los :
       Step(call_rate(slf, site, eng, IF spherical THEN SqGrid(r3d) ELSE r3d),
            LAMBDA rate :
       Step(IF site.ebl THEN ebl_rate(slf, eng, rate) ELSE Ok(rate), LAMBDA absorbed :
       Step(energy_integration_2d(absorbed, eng, Energy_density), LAMBDA dN_dVdt :
       Step(Assign("radius", [i \in 1..Len(Rmax.arr) |-> 0], "array",
                   EnergyUnit(Energy_density)), LAMBDA zeros :
       IF spherical
       THEN Step(to_value(r3d, 1), LAMBDA xk :
            Step(interp1d(xk, dN_dVdt), LAMBDA itpl :
            Step(spherical_loop(slf, itpl, rmin, Rmax.arr, 1), LAMBDA y :
            Fill(zeros, y))))
       ELSE Step(sampling_array(rmin, top), LAMBDA radius :
            Step(los_integration_1dfunc(dN_dVdt, r3d, radius, los), LAMBDA proj :
            Step(truncate(proj, radius, slf.R_truncation), LAMBDA cut :
            Step(to_value(radius, 1), LAMBDA xk :
            Step(interp1d(xk, [a \in 1..Len(radius) |-> ToFlux(slf, cut[a])]),
                 LAMBDA itpl :
            Step(cylindrical_loop(itpl, Rmin, Rmax.arr, 1), LAMBDA y :
            Fill(zeros, y))))))))))))))

\* The last binding of flux among the three cases.
LastSet(a, b, c) == IF c.set THEN c ELSE IF b.set THEN b ELSE a

\* return flux.to(unit): flux must be bound, and its unit convertible.
return_flux(flux, unit) ==
    IF ~flux.set THEN Raise("UnboundLocalError")
    ELSE IF flux.unit # unit THEN Raise("UnitConversionError")
    ELSE Ok(flux)

\* A flux operation; siteS is the rate site of the spectrum method it calls,
\* siteR the rate site of its radius-array case.
flux(slf, siteS, siteR, Emin0, Emax0, Energy_density, Rmin0, Rmax0, type_integral, Rmin_los0, NR500_los) ==
    IF type_integral \notin ok_list THEN Raise("ValueError")
    ELSE
    LET Rmin_los == Defaulted(Rmin_los0, slf.Rmin)
        Rmin == Defaulted(Rmin0, slf.Rmin)
        Rmax == Defaulted(Rmax0, slf.R500)
        Emin == Defaulted(Emin0, slf.Epmin \div 10)
        emax == OrDefault(Emax0, slf.Epmax)
    IN IF both_arrays(Emin, Rmax) THEN Raise("ValueError")
       ELSE
       Step(IF is_float(Emin) /\ is_float(Rmax)
            THEN flux_scalar(slf, siteS, Emin, emax, Energy_density, Rmin, Rmax,
                             type_integral, Rmin_los, NR500_los)
            ELSE Skip, LAMBDA f1 :
       Step(IF is_ndarray(Emin)
            THEN flux_energy_array(slf, siteS, Emin, emax, Energy_density, Rmin, Rmax,
                                   type_integral, Rmin_los, NR500_los)
            ELSE Skip, LAMBDA f2 :
       Step(IF is_ndarray(Rmax)
            THEN flux_radius_array(slf, siteR, Emin, emax, Energy_density, Rmin, Rmax,
                                   type_integral, Rmin_los, NR500_los)
            ELSE Skip, LAMBDA f3 :
       return_flux(LastSet(f1, f2, f3), EnergyUnit(Energy_density)))))

get_gamma_flux(slf, Emin, Emax, Energy_density, Rmin, Rmax, type_integral, Rmin_los, NR500_los) ==
    flux(slf, gamma_site, gamma_site, Emin, Emax, Energy_density, Rmin, Rmax,
         type_integral, Rmin_los, NR500_los)

\* The radius-array case calls get_rate_neutrino(eng, r3d) without the flavor
\* (default 'all') and applies the EBL absorption.
get_neutrino_flux(slf, Emin, Emax, Energy_density, Rmin, Rmax, type_integral, Rmin_los, NR500_los, flavor) ==
    flux(slf, neutrino_site(flavor),
         [fn |-> "get_rate_neutrino", flavor |-> "all", ebl |-> TRUE],
         Emin, Emax, Energy_density, Rmin, Rmax, type_integral, Rmin_los, NR500_los)

\* The radius-array case calls self.get_rate_ic_ray(eng, r3d).
get_ic_flux(slf, Emin, Emax, Energy_density, Rmin, Rmax, type_integral, Rmin_los, NR500_los) ==
    flux(slf, ic_site, [fn |-> "get_rate_ic_ray", flavor |-> "-", ebl |-> TRUE],
         Emin, Emax, Energy_density, Rmin, Rmax, type_integral, Rmin_los, NR500_los)

\* The flux at frequency freq0; Rmax may be an array.
get_synchrotron_flux(slf, freq0, Rmin0, Rmax0, type_integral, Rmin_los0, NR500_los) ==
    IF type_integral \notin ok_list THEN Raise("ValueError")
    ELSE
    LET Rmin_los == Defaulted(Rmin_los0, slf.Rmin)
        Rmin == Defaulted(Rmin0, slf.Rmin)
        Rmax == Defaulted(Rmax0, slf.R500)
        rmin == Rmin.val
        rlos == Rmin_los.val
        eng0 == const_h * freq0
        top == SeqMax(Rmax.arr)
        spherical == type_integral = "spherical"
        Rmax3d == array_r3d_bounds(slf, rlos, rmin, top, NR500_los).Rmax3d
        Rmin3d == array_r3d_bounds(slf, rlos, rmin, top, NR500_los).Rmin3d
        \* ... * eng0**2/freq0
        Sed(zeros, y) == Fill(zeros, [i \in 1..Len(y) |-> (y[i] * eng0 * eng0) \div freq0])
        radius_array ==
            Step(IF spherical THEN sampling_array(rmin, top)
                 ELSE sampling_array_sq(Rmin3d, Rmax3d), LAMBDA r3d :
            Step(sampling_array(rlos, NR500_los * slf.R500), LAMBDA los :
            Step(call_rate(slf, synchrotron_site, <<eng0>>,
                           IF spherical THEN SqGrid(r3d) ELSE r3d), LAMBDA rate :
            Step(Assign("radius", [i \in 1..Len(Rmax.arr) |-> 0], "array", "Jy"),
                 LAMBDA zeros :
            Step(to_value(r3d, 1), LAMBDA xk :
            Step(interp1d(xk, rate[1]), LAMBDA itpl :
            IF spherical
            THEN Step(spherical_loop(slf, itpl, rmin, Rmax.arr, 1), LAMBDA y :
                 Sed(zeros, y))
            ELSE Step(sampling_array(rmin, top), LAMBDA radius :
                 Step(los_integration_1dfunc(rate[1], r3d, radius, los), LAMBDA proj :
                 Step(truncate(proj, radius, slf.R_truncation), LAMBDA cut :
                 Step(to_value(radius, 1), LAMBDA xC :
                 Step(interp1d(xC, [a \in 1..Len(radius) |-> ToFlux(slf, cut[a])]),
                      LAMBDA itplC :
                 Step(cylindrical_loop(itplC, Rmin, Rmax.arr, 1), LAMBDA y :
                 Sed(zeros, y)))))))))))))
    IN Step(IF is_float(Rmax)
            THEN Step(get_synchrotron_spectrum(slf, <<freq0>>, Rmin, Rmax, type_integral,
                                               Rmin_los, NR500_los), LAMBDA spec :
                 Assign("scalar", spec.y, "array", "Jy"))
            ELSE Skip, LAMBDA f1 :
       Step(IF is_ndarray(Rmax) THEN radius_array ELSE Skip, LAMBDA f3 :
       return_flux(LastSet(f1, Unassigned, f3), "Jy")))

(***************************************************************************)
(* Sky maps.  dist_map is the angular distance of each pixel from the      *)
(* cluster, as the header collaborators give it; a radius is an angle      *)
(* times D_ang.                                                            *)
(***************************************************************************)
\* map_tools.profile2map: the profile interpolated at each pixel's distance.
profile2map(values, theta_proj, dist_map) ==
    Do("profile2map", <<theta_proj[1], theta_proj[Len(theta_proj)]>>,
       [p \in 1..Len(dist_map) |->
           IF dist_map[p] <= theta_proj[1] THEN ItplDen * values[1]
           ELSE IF dist_map[p] >= theta_proj[Len(theta_proj)]
                THEN ItplDen * values[Len(values)]
           ELSE ItplAt(theta_proj, values, dist_map[p])])

\* A faulty truncation of the map, which leaves the pixels as they are (C7).
truncate_map_off(pix, dist_map, theta_trunc) == Do("trunc_map", theta_trunc, pix)

\* map[dist_map > self._theta_truncation] = 0
truncate_map(pix, dist_map, theta_trunc) ==
    Do("trunc_map", theta_trunc,
       [p \in 1..Len(dist_map) |-> IF Beyond(dist_map[p], theta_trunc) THEN 0 ELSE pix[p]])

\* A faulty offset check, which raises instead of warning (C12).
offset_warning_fatal(theta_min, theta_max) ==
    IF theta_min > 10 /\ theta_max > 10 THEN Raise("ValueError") ELSE Ok(FALSE)

\* if theta_min > 10 and theta_max > 10: print a warning
offset_warning(theta_min, theta_max) ==
    IF theta_min > 10 /\ theta_max > 10 THEN Do("warn", <<theta_min, theta_max>>, TRUE)
    ELSE Ok(FALSE)

\* self._R_truncation is not np.inf: a comparison of identity, which every
\* object but np.inf itself passes.
is_not_np_inf(Rtrunc) == ~Rtrunc.is_np_inf

\* The default outer radius of the normalising flux.
norm_Rmax(slf, Rmax, NR500_los) ==
    IF Rmax.kind = "None"
    THEN (IF is_not_np_inf(slf.R_truncation) THEN Float(slf.R_truncation.v)
          ELSE Float(NR500_los * slf.R500))
    ELSE Rmax

norm_Rmin(slf, Rmin) == IF Rmin.kind = "None" THEN Float(slf.Rmin) ELSE Rmin

\* The unit of a quotient of a profile by a flux: per steradian when the two
\* are of the same kind.
PerFlux(unit, flux_unit) == IF unit = flux_unit \o " sr-1" THEN "sr-1" ELSE "mixed"

\* A faulty normalisation, which leaves the map undivided (C15).
normalize_map_undivided(pix, dist_map, unit, fl) ==
    IF PerFlux(unit, fl.unit) # "sr-1" THEN Raise("UnitConversionError")
    ELSE Ok([pix |-> [p \in 1..Len(pix) |-> Num(pix[p])],
             dist |-> dist_map, unit |-> "sr-1"])

\* map / flux, then .to('sr-1').
normalize_map(pix, dist_map, unit, fl) ==
    IF PerFlux(unit, fl.unit) # "sr-1" THEN Raise("UnitConversionError")
    ELSE Ok([pix |-> [p \in 1..Len(pix) |-> NumDiv(Num(pix[p]), Num(fl.y[1]))],
             dist |-> dist_map, unit |-> "sr-1"])

\* The map in its own unit.
plain_map(pix, dist_map, unit) ==
    Ok([pix |-> [p \in 1..Len(pix) |-> Num(pix[p])], dist |-> dist_map, unit |-> unit])

\* The projected-radius grid of a map, from the nearest to the farthest pixel.
map_radius(slf, dist_map) ==
    LET theta_max == SeqMax(dist_map)
        theta_min == SeqMin(dist_map)
        rmax == theta_max * slf.D_ang
        rmin == theta_min * slf.D_ang
    IN Step(offset_warning(theta_min, theta_max), LAMBDA warned :
       sampling_array(rmin, rmax))

\* The profile p interpolated on the pixels, then truncated.
map_pixels(slf, dist_map, p) ==
    Step(profile2map([a \in 1..Len(p.y) |-> p.y[a].n],
                     [a \in 1..Len(p.x) |-> p.x[a] \div slf.D_ang], dist_map),
         LAMBDA onmap :
    truncate_map(onmap, dist_map, slf.theta_truncation))

get_gamma_map(slf, dist_map, Emin, Emax, Rmin_los, NR500_los, Rmin, Rmax, Energy_density, Normalize) ==
    Step(map_radius(slf, dist_map), LAMBDA radius :
    Step(get_gamma_profile(slf, radius, Emin, Emax, Energy_density, Rmin_los, NR500_los),
         LAMBDA p :
    Step(map_pixels(slf, dist_map, p), LAMBDA pix :
       IF Normalize
       THEN Step(get_gamma_flux(slf, Emin, Emax, Energy_density, norm_Rmin(slf, Rmin),
                                norm_Rmax(slf, Rmax, NR500_los), "cylindrical",
                                NoneQ, NR500_los), LAMBDA fl :
            normalize_map(pix, dist_map, p.unit, fl))
       ELSE plain_map(pix, dist_map, ProfileUnit(Energy_density)))))

get_neutrino_map(slf, dist_map, Emin, Emax, Rmin_los, NR500_los, Rmin, Rmax, Energy_density, Normalize, flavor) ==
    Step(map_radius(slf, dist_map), LAMBDA radius :
    Step(get_neutrino_profile(slf, radius, Emin, Emax, Energy_density, Rmin_los, NR500_los, flavor),
         LAMBDA p :
    Step(map_pixels(slf, dist_map, p), LAMBDA pix :
       IF Normalize
       THEN Step(get_neutrino_flux(slf, Emin, Emax, Energy_density,
                                   norm_Rmin(slf, Rmin),
                                   norm_Rmax(slf, Rmax, NR500_los), "cylindrical",
                                   NoneQ, NR500_los, flavor), LAMBDA fl :
            normalize_map(pix, dist_map, p.unit, fl))
       ELSE plain_map(pix, dist_map, ProfileUnit(Energy_density)))))

get_ic_map(slf, dist_map, Emin, Emax, Rmin_los, NR500_los, Rmin, Rmax, Energy_density, Normalize) ==
    Step(map_radius(slf, dist_map), LAMBDA radius :
    Step(get_ic_profile(slf, radius, Emin, Emax, Energy_density, Rmin_los, NR500_los),
         LAMBDA p :
    Step(map_pixels(slf, dist_map, p), LAMBDA pix :
       IF Normalize
       THEN Step(get_ic_flux(slf, Emin, Emax, Energy_density, norm_Rmin(slf, Rmin),
                             norm_Rmax(slf, Rmax, NR500_los), "cylindrical",
                             NoneQ, NR500_los), LAMBDA fl :
            normalize_map(pix, dist_map, p.unit, fl))
       ELSE plain_map(pix, dist_map, ProfileUnit(Energy_density)))))

get_synchrotron_map(slf, dist_map, freq0, Rmin_los, NR500_los, Rmin, Rmax, Normalize) ==
    Step(map_radius(slf, dist_map), LAMBDA radius :
    Step(get_synchrotron_profile(slf, radius, freq0, Rmin_los, NR500_los),
         LAMBDA p :
    Step(map_pixels(slf, dist_map, p), LAMBDA pix :
       IF Normalize
       THEN Step(get_synchrotron_flux(slf, freq0, norm_Rmin(slf, Rmin),
                                      norm_Rmax(slf, Rmax, NR500_los), "cylindrical",
                                      NoneQ, NR500_los), LAMBDA fl :
            normalize_map(pix, dist_map, p.unit, fl))
       ELSE plain_map(pix, dist_map, "Jy sr-1"))))

(***************************************************************************)
(* Thermal observables: Compton parameter and X-ray surface brightness.    *)
(* The gas profiles, the XSPEC table and the projections of cluster_profile*)
(* are collaborators; X-ray values are Num records so that a NaN channel   *)
(* propagates as numpy propagates it.                                      *)
(***************************************************************************)
RECURSIVE AnyNaN(_)
AnyNaN(s) == IF s = <<>> THEN FALSE ELSE IsNaN(Head(s)) \/ AnyNaN(Tail(s))

NumScale(x, k) == IF x.d = 0 THEN x ELSE [n |-> x.n * k, d |-> x.d]

\* The sum of w[j] * f[j] over the samples selected by keep; NaN as soon as one
\* sample of f is NaN.
NumWeighted(f, w, keep) ==
    IF AnyNaN(f) THEN NaN
    ELSE Num(SeqSum([j \in 1..Len(f) |-> IF keep[j] THEN w[j] * f[j].n ELSE 0]))

\* cluster_profile.define_safe_radius_array
define_safe_radius_array(radius, Rmin, Rmax) ==
    GridFrom(Rmin, IF SeqMax(radius) > Rmax THEN SeqMax(radius) ELSE Rmax, GridRatio)

GasAt(r) == IF r < 2 THEN 3 ELSE IF r < 8 THEN 2 ELSE 1

get_pressure_gas_profile(radius) ==
    Do("pressure", Len(radius), [j \in 1..Len(radius) |-> Num(2 * GasAt(radius[j]))])

get_density_gas_profile(radius) ==
    Do("density", Len(radius), [j \in 1..Len(radius) |-> GasAt(radius[j])])

get_temperature_gas_profile(radius) ==
    Do("temperature", Len(radius), [j \in 1..Len(radius) |-> 1 + GasAt(radius[j])])

\* The three channels of the XSPEC table at the gas temperature; the count
\* rate channel is NaN when the table was generated without a response file.
itpl_xspec_table(table, T_g) ==
    Do("xspec", table,
       [C |-> [j \in 1..Len(T_g) |-> Num(T_g[j])],
        S |-> [j \in 1..Len(T_g) |-> Num(2 * T_g[j])],
        R |-> [j \in 1..Len(T_g) |-> IF table.response THEN Num(3 * T_g[j]) ELSE NaN]])

\* cluster_profile.proj_any_model at the projected radii Rp_input
proj_any_model(rad3d, f, Rp_input) ==
    Do("proj", <<Rp_input[1], Rp_input[Len(Rp_input)]>>,
       [a \in 1..Len(Rp_input) |->
           NumWeighted(f, [j \in 1..Len(rad3d) |-> 1],
                       [j \in 1..Len(rad3d) |-> rad3d[j] >= Rp_input[a] \/ j = Len(rad3d)])])

\* cluster_profile.get_volume_any_model up to radius R
get_volume_any_model(rad, f, R) ==
    NumWeighted(f, [j \in 1..Len(rad) |-> rad[j] * rad[j]],
                [j \in 1..Len(rad) |-> rad[j] <= R])

\* cluster_profile.get_surface_any_model up to radius R
get_surface_any_model(r2d, f, R) ==
    NumWeighted(f, [j \in 1..Len(r2d) |-> r2d[j]], [j \in 1..Len(r2d) |-> r2d[j] <= R])

\* values[Rproj > self._R_truncation] = 0.0
truncate_num(values, radius, Rtrunc) ==
    Do("trunc", Rtrunc,
       [a \in 1..Len(radius) |-> IF Beyond(radius[a], Rtrunc) THEN Num(0) ELSE values[a]])

\* A faulty list of channels, which lets any other selector through (C11).
output_types_any == {"S", "C", "R", "X"}

output_types == {"S", "C", "R"}

SxUnit(output_type) ==
    CASE output_type = "S" -> "erg s-1 cm-2 sr-1"
      [] output_type = "C" -> "s-1 cm-2 sr-1"
      [] OTHER -> "s-1 sr-1"

FxUnit(output_type) ==
    CASE output_type = "S" -> "erg s-1 cm-2"
      [] output_type = "C" -> "s-1 cm-2"
      [] OTHER -> "s-1"

\* np.sum(~np.isnan(dR_xspec)) == 0 and output_type == 'R'
no_response(xspec, output_type) ==
    (\A j \in 1..Len(xspec.R) : IsNaN(xspec.R[j])) /\ output_type = "R"

\* The integrand of the channel that output_type selects.
xray_integrand(xspec, n_e, output_type) ==
    IF output_type \notin output_types THEN Raise("ValueError")
    ELSE LET d == CASE output_type = "S" -> xspec.S
                    [] output_type = "C" -> xspec.C
                    [] OTHER -> xspec.R
         IN Ok([j \in 1..Len(n_e) |-> NumScale(d[j], n_e[j] * n_e[j])])

get_sx_profile(slf, table, radius, NR500_los, output_type) ==
    Step(Ok(define_safe_radius_array(radius, 1, NR500_los * slf.R500)), LAMBDA n_radius :
    Step(get_density_gas_profile(n_radius), LAMBDA n_e :
    Step(get_temperature_gas_profile(n_radius), LAMBDA T_g :
    Step(itpl_xspec_table(table, T_g), LAMBDA xspec :
    Step(IF no_response(xspec, output_type) THEN Raise("ValueError") ELSE Ok(TRUE),
         LAMBDA checked :
    Step(xray_integrand(xspec, n_e, output_type), LAMBDA integrand :
    Step(proj_any_model(n_radius, integrand, radius), LAMBDA Sx :
    Step(truncate_num(Sx, radius, slf.R_truncation), LAMBDA cut :
    Ok([x |-> radius,
        y |-> [a \in 1..Len(radius) |-> NumScale(cut[a], slf.D_ang * slf.D_ang)],
        unit |-> SxUnit(output_type)])))))))))

get_fxsph_profile(slf, table, radius, output_type) ==
    Step(Ok(define_safe_radius_array(radius, 1, 1)), LAMBDA n_radius :
    Step(get_density_gas_profile(n_radius), LAMBDA n_e :
    Step(get_temperature_gas_profile(n_radius), LAMBDA T_g :
    Step(itpl_xspec_table(table, T_g), LAMBDA xspec :
    Step(xray_integrand(xspec, n_e, output_type), LAMBDA integrand :
    Ok([x |-> radius,
        y |-> [i \in 1..Len(radius) |->
                  get_volume_any_model(n_radius, integrand, radius[i])],
        unit |-> FxUnit(output_type)]))))))

get_fxcyl_profile(slf, table, radius, NR500_los, output_type) ==
    Step(Ok(define_safe_radius_array(radius, 1, 1)), LAMBDA sx_radius :
    Step(get_sx_profile(slf, table, sx_radius, NR500_los, output_type), LAMBDA sx :
    Ok([x |-> radius,
        y |-> [i \in 1..Len(radius) |->
                  NumDiv(get_surface_any_model(sx.x, sx.y, radius[i]),
                         Num(slf.D_ang * slf.D_ang))],
        unit |-> FxUnit(output_type)])))

get_y_compton_profile(slf, radius, NR500_los) ==
    Step(Ok(define_safe_radius_array(radius, 1, NR500_los * slf.R500)), LAMBDA p_radius :
    Step(get_pressure_gas_profile(p_radius), LAMBDA p_r :
    Step(proj_any_model(p_radius, p_r, radius), LAMBDA Pproj :
    Step(truncate_num(Pproj, radius, slf.R_truncation), LAMBDA y_compton :
    Ok([x |-> radius, y |-> y_compton, unit |-> "adu"])))))

get_ysph_profile(slf, radius) ==
    Step(Ok(define_safe_radius_array(radius, 1, 1)), LAMBDA press_radius :
    Step(get_pressure_gas_profile(press_radius), LAMBDA p_r :
    Ok([x |-> radius,
        y |-> [i \in 1..Len(radius) |->
                  get_volume_any_model(press_radius, p_r, radius[i])],
        unit |-> "kpc2"])))

get_ycyl_profile(slf, radius, NR500_los) ==
    Step(Ok(define_safe_radius_array(radius, 1, 1)), LAMBDA y_radius :
    Step(get_y_compton_profile(slf, y_radius, NR500_los), LAMBDA y :
    Ok([x |-> radius,
        y |-> [i \in 1..Len(radius) |-> get_surface_any_model(y.x, y.y, radius[i])],
        unit |-> "kpc2"])))

\* theta_min = 1e-4 stands in for a zero angle: below every pixel step.
ThetaFloor == 1

\* map_tools.profile2map on values that may be NaN
profile2map_num(values, theta_proj, dist_map) ==
    Step(profile2map([a \in 1..Len(values) |-> values[a].n], theta_proj, dist_map),
         LAMBDA onmap :
         Ok([p \in 1..Len(dist_map) |-> IF AnyNaN(values) THEN NaN ELSE Num(onmap[p])]))

\* map[dist_map > self._theta_truncation.to_value('deg')] = 0
truncate_map_num(pix, dist_map, theta_trunc) ==
    Do("trunc_map", theta_trunc,
       [p \in 1..Len(dist_map) |->
           IF Beyond(dist_map[p], theta_trunc) THEN Num(0) ELSE pix[p]])

\* ndimage.gaussian_filter, as the three-pixel kernel (1, 2, 1) with
\* reflecting edges.
gaussian_filter(pix) ==
    LET n == Len(pix)
        At(p) == pix[IF p < 1 THEN 1 ELSE IF p > n THEN n ELSE p]
    IN Do("smooth", n,
          [p \in 1..n |->
              IF AnyNaN(pix) THEN NaN
              ELSE Num(At(p - 1).n + 2 * At(p).n + At(p + 1).n)])

\* The projected-radius grid of a thermal map: np.logspace from the nearest
\* to the farthest pixel, a zero angle replaced by the floor.
thermal_radius(slf, dist_map) ==
    LET theta_max == SeqMax(dist_map)
        theta_min == IF SeqMin(dist_map) = 0 THEN ThetaFloor ELSE SeqMin(dist_map)
        rmax == theta_max * slf.D_ang
        rmin == theta_min * slf.D_ang
    IN Ok(GridFrom(rmin, rmax, GridRatio))

\* A faulty order, which smooths the map before it is truncated (C29).
thermal_pixels_beam_first(slf, dist_map, FWHM, p) ==
    Step(profile2map_num(p.y, [a \in 1..Len(p.x) |-> p.x[a] \div slf.D_ang], dist_map),
         LAMBDA onmap :
    Step(IF FWHM # "None" THEN gaussian_filter(onmap) ELSE Ok(onmap), LAMBDA smooth :
    truncate_map_num(smooth, dist_map, slf.theta_truncation)))

\* The profile p interpolated on the pixels, truncated, then smoothed when a
\* beam is given.
thermal_pixels(slf, dist_map, FWHM, p) ==
    Step(profile2map_num(p.y, [a \in 1..Len(p.x) |-> p.x[a] \div slf.D_ang], dist_map),
         LAMBDA onmap :
    Step(truncate_map_num(onmap, dist_map, slf.theta_truncation), LAMBDA cut :
    IF FWHM # "None" THEN gaussian_filter(cut) ELSE Ok(cut)))

get_ymap(slf, dist_map, FWHM, NR500_los) ==
    Step(thermal_radius(slf, dist_map), LAMBDA radius :
    Step(get_y_compton_profile(slf, radius, NR500_los), LAMBDA p :
    Step(thermal_pixels(slf, dist_map, FWHM, p), LAMBDA pix :
    Ok([pix |-> pix, dist |-> dist_map, unit |-> "adu"]))))

\* The output_type is checked again on the way: at the interpolation and at
\* the units.
get_sxmap(slf, table, dist_map, FWHM, NR500_los, output_type) ==
    Step(thermal_radius(slf, dist_map), LAMBDA radius :
    Step(get_sx_profile(slf, table, radius, NR500_los, output_type), LAMBDA p :
    Step(thermal_pixels(slf, dist_map, FWHM, p), LAMBDA pix :
    IF output_type \notin output_types THEN Raise("ValueError")
    ELSE Ok([pix |-> pix, dist |-> dist_map, unit |-> SxUnit(output_type)]))))

(***************************************************************************)
(* The state machine: one call of one operation on a cluster, then its     *)
(* return.  The cluster is fixed at construction; an operation reads it.   *)
(***************************************************************************)
ArraysOver(S) == UNION {[1..n -> S] : n \in 1..MaxLen}

TypeIntegrals == {"spherical", "cylindrical", "projected"}
Flavors == {"all", "numu", "nue"}
Energies == ArraysOver({2, 8})
Radii == ArraysOver({2, 6})
EminArgs == {NoneQ, Float(1), Float(3), Scalar("int", 1)} \cup {Array(a) : a \in ArraysOver({1, 3})}
RmaxArgs == {NoneQ, Float(6), Float(8), Scalar("int", 8)} \cup {Array(a) : a \in ArraysOver({6, 8})}
\* The bounds of a flux: in GeV and kpc; an array Emin in MeV, with Emax; an
\* array Rmax in pc, with Rmin; an outer radius equal to the inner radius of
\* the cluster, which is an empty range.
FluxBounds ==
    {[Emin |-> e, Emax |-> NoneQ, Rmin |-> NoneQ, Rmax |-> r] : e \in EminArgs, r \in RmaxArgs}
    \cup {[Emin |-> InMilli(Array(a)), Emax |-> InMilli(Float(16)), Rmin |-> NoneQ,
            Rmax |-> NoneQ] : a \in ArraysOver({1, 3})}
    \cup {[Emin |-> NoneQ, Emax |-> NoneQ, Rmin |-> InMilli(Float(1)),
            Rmax |-> InMilli(Array(a))] : a \in ArraysOver({6, 8})}
    \cup {[Emin |-> e, Emax |-> NoneQ, Rmin |-> NoneQ, Rmax |-> Float(1)] :
               e \in {NoneQ, Float(3)} \cup {Array(a) : a \in ArraysOver({3})}}
ScalarEmin == {NoneQ, Float(3)}
ScalarRmax == {NoneQ, Float(8)}
ScalarRmin == {NoneQ, Float(2)}
DistMaps == {<<1, 2>>, <<1, 2, 3>>, <<0, 1, 2>>, <<2, 3, 4>>, <<11, 12>>}
Tables == {[response |-> TRUE], [response |-> FALSE]}
OutputTypes == {"S", "C", "R", "X"}
Beams == {"None", "FWHM"}
NR500 == 2
Freq0 == 1

NoCall == [op |-> "none"]
NoRet == [err |-> "none", log |-> <<>>, v |-> NoVal]

Init ==
    /\ self \in Clusters
    /\ pc = "idle"
    /\ call = NoCall
    /\ ret = NoRet

\* A faulty return, which leaves the cluster reconfigured (C14).
Return_reconfigured ==
    /\ pc = "done"
    /\ pc' = "idle"
    /\ call' = NoCall
    /\ ret' = NoRet
    /\ self' \in Clusters

Return ==
    /\ pc = "done"
    /\ pc' = "idle"
    /\ call' = NoCall
    /\ ret' = NoRet
    /\ UNCHANGED self

GammaSpectrum ==
    /\ pc = "idle"
    /\ \E energy \in Energies, Rmax \in ScalarRmax, t \in TypeIntegrals :
          /\ call' = [op |-> "get_gamma_spectrum", energy |-> energy, Rmax |-> Rmax,
                      type_integral |-> t]
          /\ ret' = get_gamma_spectrum(self, energy, NoneQ, Rmax, t, NoneQ, NR500)
          /\ pc' = "done"
          /\ UNCHANGED self

NeutrinoSpectrum ==
    /\ pc = "idle"
    /\ \E energy \in Energies, Rmax \in ScalarRmax, t \in TypeIntegrals, flavor \in Flavors :
          /\ call' = [op |-> "get_neutrino_spectrum", energy |-> energy, Rmax |-> Rmax,
                      type_integral |-> t, flavor |-> flavor]
          /\ ret' = get_neutrino_spectrum(self, energy, NoneQ, Rmax, t, NR500, NoneQ, flavor)
          /\ pc' = "done"
          /\ UNCHANGED self

IcSpectrum ==
    /\ pc = "idle"
    /\ \E energy \in Energies, Rmax \in ScalarRmax, t \in TypeIntegrals :
          /\ call' = [op |-> "get_ic_spectrum", energy |-> energy, Rmax |-> Rmax,
                      type_integral |-> t]
          /\ ret' = get_ic_spectrum(self, energy, NoneQ, Rmax, t, NoneQ, NR500)
          /\ pc' = "done"
          /\ UNCHANGED self

SynchrotronSpectrum ==
    /\ pc = "idle"
    /\ \E frequency \in Energies, Rmax \in ScalarRmax, t \in TypeIntegrals :
          /\ call' = [op |-> "get_synchrotron_spectrum", energy |-> frequency, Rmax |-> Rmax,
                      type_integral |-> t]
          /\ ret' = get_synchrotron_spectrum(self, frequency, NoneQ, Rmax, t, NoneQ, NR500)
          /\ pc' = "done"
          /\ UNCHANGED self

GammaProfile ==
    /\ pc = "idle"
    /\ \E radius \in Radii, Emin \in ScalarEmin, ed \in BOOLEAN :
          /\ call' = [op |-> "get_gamma_profile", radius |-> radius, Emin |-> Emin,
                      Energy_density |-> ed]
          /\ ret' = get_gamma_profile(self, radius, Emin, NoneQ, ed, NoneQ, NR500)
          /\ pc' = "done"
          /\ UNCHANGED self

NeutrinoProfile ==
    /\ pc = "idle"
    /\ \E radius \in Radii, Emin \in ScalarEmin, ed \in BOOLEAN, flavor \in Flavors :
          /\ call' = [op |-> "get_neutrino_profile", radius |-> radius, Emin |-> Emin,
                      Energy_density |-> ed, flavor |-> flavor]
          /\ ret' = get_neutrino_profile(self, radius, Emin, NoneQ, ed, NoneQ, NR500, flavor)
          /\ pc' = "done"
          /\ UNCHANGED self

IcProfile ==
    /\ pc = "idle"
    /\ \E radius \in Radii, Emin \in ScalarEmin, ed \in BOOLEAN :
          /\ call' = [op |-> "get_ic_profile", radius |-> radius, Emin |-> Emin,
                      Energy_density |-> ed]
          /\ ret' = get_ic_profile(self, radius, Emin, NoneQ, ed, NoneQ, NR500)
          /\ pc' = "done"
          /\ UNCHANGED self

SynchrotronProfile ==
    /\ pc = "idle"
    /\ \E radius \in Radii :
          /\ call' = [op |-> "get_synchrotron_profile", radius |-> radius]
          /\ ret' = get_synchrotron_profile(self, radius, Freq0, NoneQ, NR500)
          /\ pc' = "done"
          /\ UNCHANGED self

GammaFlux ==
    /\ pc = "idle"
    /\ \E b \in FluxBounds, t \in TypeIntegrals, ed \in BOOLEAN :
          /\ call' = [op |-> "get_gamma_flux", Emin |-> b.Emin, Emax |-> b.Emax,
                      Rmin |-> b.Rmin, Rmax |-> b.Rmax,
                      type_integral |-> t, Energy_density |-> ed]
          /\ ret' = get_gamma_flux(self, b.Emin, b.Emax, ed, b.Rmin, b.Rmax, t, NoneQ, NR500)
          /\ pc' = "done"
          /\ UNCHANGED self

NeutrinoFlux ==
    /\ pc = "idle"
    /\ \E b \in FluxBounds, t \in TypeIntegrals, ed \in BOOLEAN, flavor \in Flavors :
          /\ call' = [op |-> "get_neutrino_flux", Emin |-> b.Emin, Emax |-> b.Emax,
                      Rmin |-> b.Rmin, Rmax |-> b.Rmax,
                      type_integral |-> t, Energy_density |-> ed, flavor |-> flavor]
          /\ ret' = get_neutrino_flux(self, b.Emin, b.Emax, ed, b.Rmin, b.Rmax, t, NoneQ,
                                      NR500, flavor)
          /\ pc' = "done"
          /\ UNCHANGED self

IcFlux ==
    /\ pc = "idle"
    /\ \E b \in FluxBounds, t \in TypeIntegrals, ed \in BOOLEAN :
          /\ call' = [op |-> "get_ic_flux", Emin |-> b.Emin, Emax |-> b.Emax,
                      Rmin |-> b.Rmin, Rmax |-> b.Rmax,
                      type_integral |-> t, Energy_density |-> ed]
          /\ ret' = get_ic_flux(self, b.Emin, b.Emax, ed, b.Rmin, b.Rmax, t, NoneQ, NR500)
          /\ pc' = "done"
          /\ UNCHANGED self

SynchrotronFlux ==
    /\ pc = "idle"
    /\ \E b \in {q \in FluxBounds : q.Emin = NoneQ /\ q.Emax = NoneQ}, t \in TypeIntegrals :
          /\ call' = [op |-> "get_synchrotron_flux", Emin |-> Float(Freq0),
                      Rmin |-> b.Rmin, Rmax |-> b.Rmax, type_integral |-> t]
          /\ ret' = get_synchrotron_flux(self, Freq0, b.Rmin, b.Rmax, t, NoneQ, NR500)
          /\ pc' = "done"
          /\ UNCHANGED self

GammaMap ==
    /\ pc = "idle"
    /\ \E dist_map \in DistMaps, Emin \in ScalarEmin, Rmin \in ScalarRmin,
          Rmax \in ScalarRmax, Rmin_los \in ScalarRmin,
          ed \in BOOLEAN, Normalize \in BOOLEAN :
          /\ call' = [op |-> "get_gamma_map", dist_map |-> dist_map, Emin |-> Emin,
                      Rmin |-> Rmin, Rmax |-> Rmax, Energy_density |-> ed, Normalize |-> Normalize,
                      FWHM |-> "None", Rmin_los |-> Rmin_los]
          /\ ret' = get_gamma_map(self, dist_map, Emin, NoneQ, Rmin_los, NR500, Rmin, Rmax,
                                  ed, Normalize)
          /\ pc' = "done"
          /\ UNCHANGED self

NeutrinoMap ==
    /\ pc = "idle"
    /\ \E dist_map \in DistMaps, Emin \in ScalarEmin, Rmin \in ScalarRmin,
          Rmax \in ScalarRmax, Rmin_los \in ScalarRmin,
          ed \in BOOLEAN, Normalize \in BOOLEAN, flavor \in Flavors :
          /\ call' = [op |-> "get_neutrino_map", dist_map |-> dist_map, Emin |-> Emin,
                      Rmin |-> Rmin, Rmax |-> Rmax, Energy_density |-> ed, Normalize |-> Normalize,
                      FWHM |-> "None", flavor |-> flavor, Rmin_los |-> Rmin_los]
          /\ ret' = get_neutrino_map(self, dist_map, Emin, NoneQ, Rmin_los, NR500, Rmin, Rmax,
                                     ed, Normalize, flavor)
          /\ pc' = "done"
          /\ UNCHANGED self

IcMap ==
    /\ pc = "idle"
    /\ \E dist_map \in DistMaps, Emin \in ScalarEmin, Rmin \in ScalarRmin,
          Rmax \in ScalarRmax, Rmin_los \in ScalarRmin,
          ed \in BOOLEAN, Normalize \in BOOLEAN :
          /\ call' = [op |-> "get_ic_map", dist_map |-> dist_map, Emin |-> Emin,
                      Rmin |-> Rmin, Rmax |-> Rmax, Energy_density |-> ed, Normalize |-> Normalize,
                      FWHM |-> "None", Rmin_los |-> Rmin_los]
          /\ ret' = get_ic_map(self, dist_map, Emin, NoneQ, Rmin_los, NR500, Rmin, Rmax,
                               ed, Normalize)
          /\ pc' = "done"
          /\ UNCHANGED self

SynchrotronMap ==
    /\ pc = "idle"
    /\ \E dist_map \in DistMaps, Rmin \in ScalarRmin, Rmax \in ScalarRmax,
          Rmin_los \in ScalarRmin, Normalize \in BOOLEAN :
          /\ call' = [op |-> "get_synchrotron_map", dist_map |-> dist_map,
                      Rmin |-> Rmin, Rmax |-> Rmax,
                      Normalize |-> Normalize, FWHM |-> "None", Rmin_los |-> Rmin_los]
          /\ ret' = get_synchrotron_map(self, dist_map, Freq0, Rmin_los, NR500, Rmin, Rmax,
                                        Normalize)
          /\ pc' = "done"
          /\ UNCHANGED self

YsphProfile ==
    /\ pc = "idle"
    /\ \E radius \in Radii :
          /\ call' = [op |-> "get_ysph_profile", radius |-> radius]
          /\ ret' = get_ysph_profile(self, radius)
          /\ pc' = "done"
          /\ UNCHANGED self

YcylProfile ==
    /\ pc = "idle"
    /\ \E radius \in Radii :
          /\ call' = [op |-> "get_ycyl_profile", radius |-> radius]
          /\ ret' = get_ycyl_profile(self, radius, NR500)
          /\ pc' = "done"
          /\ UNCHANGED self

YComptonProfile ==
    /\ pc = "idle"
    /\ \E radius \in Radii :
          /\ call' = [op |-> "get_y_compton_profile", radius |-> radius]
          /\ ret' = get_y_compton_profile(self, radius, NR500)
          /\ pc' = "done"
          /\ UNCHANGED self

Ymap ==
    /\ pc = "idle"
    /\ \E dist_map \in DistMaps, FWHM \in Beams :
          /\ call' = [op |-> "get_ymap", dist_map |-> dist_map, FWHM |-> FWHM,
                      Normalize |-> FALSE]
          /\ ret' = get_ymap(self, dist_map, FWHM, NR500)
          /\ pc' = "done"
          /\ UNCHANGED self

SxProfile ==
    /\ pc = "idle"
    /\ \E table \in Tables, radius \in Radii, output_type \in OutputTypes :
          /\ call' = [op |-> "get_sx_profile", table |-> table, radius |-> radius,
                      output_type |-> output_type]
          /\ ret' = get_sx_profile(self, table, radius, NR500, output_type)
          /\ pc' = "done"
          /\ UNCHANGED self

FxsphProfile ==
    /\ pc = "idle"
    /\ \E table \in Tables, radius \in Radii, output_type \in OutputTypes :
          /\ call' = [op |-> "get_fxsph_profile", table |-> table, radius |-> radius,
                      output_type |-> output_type]
          /\ ret' = get_fxsph_profile(self, table, radius, output_type)
          /\ pc' = "done"
          /\ UNCHANGED self

FxcylProfile ==
    /\ pc = "idle"
    /\ \E table \in Tables, radius \in Radii, output_type \in OutputTypes :
          /\ call' = [op |-> "get_fxcyl_profile", table |-> table, radius |-> radius,
                      output_type |-> output_type]
          /\ ret' = get_fxcyl_profile(self, table, radius, NR500, output_type)
          /\ pc' = "done"
          /\ UNCHANGED self

Sxmap ==
    /\ pc = "idle"
    /\ \E table \in Tables, dist_map \in DistMaps, FWHM \in Beams,
          output_type \in OutputTypes :
          /\ call' = [op |-> "get_sxmap", table |-> table, dist_map |-> dist_map,
                      FWHM |-> FWHM, Normalize |-> FALSE, output_type |-> output_type]
          /\ ret' = get_sxmap(self, table, dist_map, FWHM, NR500, output_type)
          /\ pc' = "done"
          /\ UNCHANGED self

Next ==
    \/ GammaSpectrum
    \/ NeutrinoSpectrum
    \/ IcSpectrum
    \/ SynchrotronSpectrum
    \/ GammaProfile
    \/ NeutrinoProfile
    \/ IcProfile
    \/ SynchrotronProfile
    \/ GammaFlux
    \/ NeutrinoFlux
    \/ IcFlux
    \/ SynchrotronFlux
    \/ GammaMap
    \/ NeutrinoMap
    \/ IcMap
    \/ SynchrotronMap
    \/ YsphProfile
    \/ YcylProfile
    \/ YComptonProfile
    \/ Ymap
    \/ SxProfile
    \/ FxsphProfile
    \/ FxcylProfile
    \/ Sxmap
    \/ Return

Spec == Init /\ [][Next]_vars

(***************************************************************************)
(* Properties of the operations, stated on the state after a call: call is *)
(* the operation and its arguments, ret its outcome and the log of the     *)
(* collaborator calls it made.                                             *)
(***************************************************************************)
SpectrumOps ==
    {"get_gamma_spectrum", "get_neutrino_spectrum", "get_ic_spectrum",
     "get_synchrotron_spectrum"}

PhotonProfileOps ==
    {"get_gamma_profile", "get_neutrino_profile", "get_ic_profile",
     "get_synchrotron_profile"}

BandFluxOps == {"get_gamma_flux", "get_neutrino_flux", "get_ic_flux"}

FluxOps == BandFluxOps \cup {"get_synchrotron_flux"}

PhotonMapOps == {"get_gamma_map", "get_neutrino_map", "get_ic_map", "get_synchrotron_map"}

MapOps == PhotonMapOps \cup {"get_ymap", "get_sxmap"}

ProjectedProfileOps == PhotonProfileOps \cup {"get_y_compton_profile", "get_sx_profile"}

XrayOps == {"get_sx_profile", "get_fxsph_profile", "get_fxcyl_profile", "get_sxmap"}

ValidTypes == {"spherical", "cylindrical"}

Called(ops) == pc = "done" /\ call.op \in ops

Returned(ops) == Called(ops) /\ ret.err = "none"

\* The calls that build a grid, evaluate a rate or integrate.
WorkEvents == {"grid", "rate", "absorb", "sphint", "cylint", "eint", "los", "disk"}

NoWork(log) == \A i \in 1..Len(log) : log[i][1] \notin WorkEvents

\* Every e in the log comes before every f.
AllBefore(log, e, f) ==
    \A i \in Positions(log, e) : \A j \in Positions(log, f) : i < j

\* C1: a spectrum or flux operation called with a type_integral other than
\* 'spherical' and 'cylindrical' ends with an error, returns nothing, and has
\* built no grid, evaluated no rate and integrated nothing.
C1_InvalidTypeIntegral ==
    (Called(SpectrumOps \cup FluxOps) /\ call.type_integral \notin ValidTypes)
        => (ret.err # "none" /\ ret.v = NoVal /\ NoWork(ret.log))

C1_Witness ==
    /\ Called({"get_synchrotron_flux"})
    /\ call.type_integral = "projected"
    /\ call.Rmax.kind = "ndarray"
    /\ ret.err = "ValueError"

\* C2: get_gamma_flux, get_neutrino_flux and get_ic_flux called with a valid
\* type_integral and with Emin and Rmax both arrays end with an error, return
\* no flux, and have built no grid, evaluated no rate and integrated nothing.
C2_BothArrays ==
    (/\ Called(BandFluxOps)
     /\ call.type_integral \in ValidTypes
     /\ call.Emin.kind = "ndarray"
     /\ call.Rmax.kind = "ndarray")
        => (ret.err # "none" /\ ret.v = NoVal /\ NoWork(ret.log))

C2_Witness ==
    /\ Called({"get_neutrino_flux"})
    /\ call.type_integral = "cylindrical"
    /\ call.Emin.kind = "ndarray" /\ Len(call.Emin.arr) = 2
    /\ call.Rmax.kind = "ndarray"
    /\ ret.err = "ValueError"

\* A flux query the operation accepts: a valid type_integral, and bounds that
\* are scalars (float or integer valued, given or defaulted) or arrays, not
\* both arrays.
Accepted ==
    /\ Called(FluxOps)
    /\ call.type_integral \in ValidTypes
    /\ ~(call.Emin.kind = "ndarray" /\ call.Rmax.kind = "ndarray")

\* C3: an accepted flux query never reaches the return statement with the flux
\* unassigned, and a query that returns has run exactly one of the dispatch
\* paths and holds the flux that path assigned.
C3_DispatchTotal ==
    Accepted =>
        /\ ret.err # "UnboundLocalError"
        /\ ret.err = "none" => (Count(ret.log, "assign") = 1 /\ ret.v.set)

\* The EBL absorption is part of the gamma-ray and inverse-Compton paths, and
\* of the radius-array path of get_neutrino_flux.
Absorbing ==
    \/ call.op \in {"get_gamma_spectrum", "get_gamma_profile", "get_gamma_flux",
                    "get_ic_spectrum", "get_ic_profile", "get_ic_flux"}
    \/ call.op = "get_neutrino_flux" /\ call.Rmax.kind = "ndarray"

\* C4, as stated: in every spectrum, profile and flux path that returns, with
\* an EBL model set the absorption factor is applied exactly once and before
\* every energy integration; with the model 'none' it is never asked for.
C4_AbsorbedOnEveryPath ==
    Returned(SpectrumOps \cup PhotonProfileOps \cup FluxOps) =>
        IF self.EBL_model # "none"
        THEN Count(ret.log, "absorb") = 1 /\ AllBefore(ret.log, "absorb", "eint")
        ELSE Count(ret.log, "absorb") = 0

\* C4, amended: with the model 'none' no spectrum, profile, flux or map path
\* asks for the absorption factor.  With a model set, a gamma-ray or
\* inverse-Compton spectrum, profile or flux path that returns, and the
\* radius-array path of get_neutrino_flux, has applied it exactly once, before
\* every energy integration; the other neutrino paths and the synchrotron
\* paths never apply it; and no path applies it more than once.
C4_AbsorbedOnGammaAndIc ==
    /\ (pc = "done" /\ self.EBL_model = "none") => Count(ret.log, "absorb") = 0
    /\ Called(SpectrumOps \cup PhotonProfileOps \cup FluxOps) =>
          /\ Count(ret.log, "absorb") <= 1
          /\ AllBefore(ret.log, "absorb", "eint")
          /\ ~Absorbing => Count(ret.log, "absorb") = 0
          /\ (Absorbing /\ ret.err = "none" /\ self.EBL_model # "none")
                => Count(ret.log, "absorb") = 1

C4_Witness ==
    /\ Returned({"get_ic_flux"})
    /\ self.EBL_model # "none"
    /\ call.Emin.kind = "ndarray" /\ Len(call.Emin.arr) = 2
    /\ Count(ret.log, "absorb") = 1
    /\ Count(ret.log, "eint") = 2

\* The radius is strictly beyond a finite truncation radius.
Outside(r, Rtrunc) == ~Rtrunc.inf /\ r > Rtrunc.v

\* C5: in the profile a projected-profile operation returns, every value at a
\* projected radius strictly greater than R_truncation is exactly zero.
C5_ProfileTruncated ==
    Returned(ProjectedProfileOps) =>
        \A a \in 1..Len(ret.v.x) :
            Outside(ret.v.x[a], self.R_truncation) => IsZero(ret.v.y[a])

C5_Witness ==
    /\ Returned({"get_gamma_profile"})
    /\ \E a \in 1..Len(ret.v.x) : Outside(ret.v.x[a], self.R_truncation)
    /\ \E a \in 1..Len(ret.v.x) : ~IsZero(ret.v.y[a])

\* C6: in every cylindrical flux path, every projected value that enters a
\* disk integral at a radius strictly greater than R_truncation is exactly
\* zero, the values resampled from the interpolant included.
C6_DiskInputsTruncated ==
    (Called(FluxOps) /\ call.type_integral = "cylindrical") =>
        \A i \in Positions(ret.log, "disk") :
            \A a \in 1..Len(ret.log[i][2].x) :
                Outside(ret.log[i][2].x[a], self.R_truncation)
                    => ret.log[i][2].y[a] = 0

\* Every pixel strictly beyond a finite theta_truncation is exactly zero.
PixelsTruncated ==
    \A p \in 1..Len(ret.v.dist) :
        Outside(ret.v.dist[p], self.theta_truncation) => IsZero(ret.v.pix[p])

\* C7, as stated: in the map a map operation returns, whatever Normalize and
\* FWHM, every pixel strictly beyond theta_truncation is exactly zero.
C7_MapTruncatedWhateverOptions == Returned(MapOps) => PixelsTruncated

\* C7, amended: the pixels strictly beyond theta_truncation are exactly zero in
\* the map of every map operation, Normalize set or not, when FWHM is not
\* supplied; a supplied FWHM smooths the map after the truncation.
C7_MapTruncatedWithoutBeam ==
    (Returned(MapOps) /\ call.FWHM = "None") => PixelsTruncated

C7_Witness ==
    /\ Returned({"get_gamma_map"})
    /\ call.Normalize
    /\ \E p \in 1..Len(ret.v.dist) : Outside(ret.v.dist[p], self.theta_truncation)
    /\ \E p \in 1..Len(ret.v.dist) : ~IsZero(ret.v.pix[p]) /\ ~IsNaN(ret.v.pix[p])

\* A flux query whose array bound has a single element, the other bound being
\* a float scalar or defaulted.
SingleElement(q) == q.kind = "ndarray" /\ Len(q.arr) = 1

SingleElementQuery ==
    \/ SingleElement(call.Rmax) /\ call.Emin.kind \in {"None", "float"}
    \/ SingleElement(call.Emin) /\ call.Rmax.kind \in {"None", "float"}

AsScalar(q) == IF q.kind = "ndarray" THEN Float(q.arr[1]) ELSE q

\* The same operation called with the element as a scalar.
ScalarTwin ==
    CASE call.op = "get_gamma_flux" ->
            get_gamma_flux(self, AsScalar(call.Emin), NoneQ, call.Energy_density, NoneQ,
                           AsScalar(call.Rmax), call.type_integral, NoneQ, NR500)
      [] call.op = "get_neutrino_flux" ->
            get_neutrino_flux(self, AsScalar(call.Emin), NoneQ, call.Energy_density, NoneQ,
                              AsScalar(call.Rmax), call.type_integral, NoneQ, NR500,
                              call.flavor)
      [] call.op = "get_ic_flux" ->
            get_ic_flux(self, AsScalar(call.Emin), NoneQ, call.Energy_density, NoneQ,
                        AsScalar(call.Rmax), call.type_integral, NoneQ, NR500)
      [] OTHER ->
            get_synchrotron_flux(self, Freq0, NoneQ, AsScalar(call.Rmax),
                                 call.type_integral, NoneQ, NR500)

\* The rate functions a call evaluated, with the flavor passed.
RateSites(log) == {<<log[i][2].fn, log[i][2].flavor>> : i \in Positions(log, "rate")}

\* The bounds of the energy integrals, and of the volume or disk integrals.
EnergyBounds(log) == {log[i][2] : i \in Positions(log, "eint")}

SpaceBounds(log) ==
    {log[i][2] : i \in Positions(log, "sphint") \cup Positions(log, "cylint")}
        \cup {<<log[i][2].x[1], log[i][2].x[Len(log[i][2].x)]>> :
                 i \in Positions(log, "disk")}

\* a and b differ by less than an eighth of the larger.
Agree(a, b) ==
    LET d == IF a > b THEN a - b ELSE b - a
        m == IF a > b THEN a ELSE b
    IN 8 * d <= m

\* C8: the array path on a single-element array and the scalar path on that
\* element evaluate the same rate function, treat the absorption alike,
\* integrate between the same bounds, and agree within tolerance (the array
\* path carries the interpolant's scale ItplDen).
C8_ScalarAndSingleElementAgree ==
    (Called(FluxOps) /\ call.type_integral \in ValidTypes /\ SingleElementQuery) =>
        LET s == ScalarTwin
        IN /\ ret.err = s.err
           /\ RateSites(ret.log) = RateSites(s.log)
           /\ Count(ret.log, "absorb") = Count(s.log, "absorb")
           /\ EnergyBounds(ret.log) = EnergyBounds(s.log)
           /\ SpaceBounds(ret.log) = SpaceBounds(s.log)
           /\ ret.err = "none" =>
                 (Len(ret.v.y) = 1 /\ Agree(ret.v.y[1], ItplDen * s.v.y[1]))

\* C9: a spectrum, profile or flux call that returns has evaluated the rate
\* function exactly once, whatever the number of elements of Emin or Rmax, and
\* a failed one at most once; a map call that returns has evaluated it once,
\* and once more exactly when Normalize is set.
C9_RateEvaluatedOnce ==
    /\ Called(SpectrumOps \cup PhotonProfileOps \cup FluxOps) =>
          /\ Count(ret.log, "rate") <= 1
          /\ ret.err = "none" => Count(ret.log, "rate") = 1
    /\ Called(PhotonMapOps) =>
          /\ Count(ret.log, "rate") <= (IF call.Normalize THEN 2 ELSE 1)
          /\ ret.err = "none" =>
                Count(ret.log, "rate") = (IF call.Normalize THEN 2 ELSE 1)

C9_Witness ==
    /\ Returned({"get_gamma_flux"})
    /\ call.Rmax.kind = "ndarray" /\ Len(call.Rmax.arr) = 2
    /\ Count(ret.log, "itpl_eval") = 2
    /\ Count(ret.log, "rate") = 1

\* C10: an X-ray operation asked for the count rate of a table whose response
\* channel is all NaN ends with an error.
C10_NaNChannelFails ==
    (Called(XrayOps) /\ call.output_type = "R" /\ ~call.table.response)
        => ret.err # "none"

\* C11: an X-ray operation called with an output_type other than 'S', 'C' and
\* 'R' ends with an error and returns no profile, flux or map, whether the
\* lookup table has a response channel or not.
C11_InvalidOutputType ==
    (Called(XrayOps) /\ call.output_type \notin {"S", "C", "R"})
        => (ret.err # "none" /\ ret.v = NoVal)

C11_Witness ==
    /\ Called({"get_fxsph_profile"})
    /\ call.output_type = "X"
    /\ ~call.table.response
    /\ ret.err = "ValueError"
    /\ Count(ret.log, "xspec") = 1

\* The field of view of the call is far offset from the cluster.
FarOffset == SeqMin(call.dist_map) > 10 /\ SeqMax(call.dist_map) > 10

\* C12: a photon map operation called on a field of view whose nearest and
\* farthest pixels are both more than 10 degrees from the cluster emits one
\* warning and goes on: the radius grid is built next, from theta_min * D_ang
\* to theta_max * D_ang; the profile is projected on that grid and
\* interpolated, over theta_min..theta_max, onto the pixels; and a call that
\* returns gives a map of those pixels.
C12_OffsetWarns ==
    (Called(PhotonMapOps) /\ FarOffset) =>
        LET tmin == SeqMin(call.dist_map)
            tmax == SeqMax(call.dist_map)
        IN /\ Count(ret.log, "warn") = 1
           /\ Len(ret.log) >= 2
           /\ ret.log[1] = Ev("warn", <<tmin, tmax>>)
           /\ ret.log[2] = Ev("grid", <<tmin * self.D_ang, tmax * self.D_ang>>)
           /\ \E i \in Positions(ret.log, "los") :
                 ret.log[i][2] = <<tmin * self.D_ang, tmax * self.D_ang>>
           /\ Count(ret.log, "profile2map") = 1
           /\ \A i \in Positions(ret.log, "profile2map") : ret.log[i][2] = <<tmin, tmax>>
           /\ ret.err = "none" => ret.v.dist = call.dist_map

C12_Witness ==
    /\ Returned({"get_synchrotron_map"})
    /\ FarOffset
    /\ Count(ret.log, "warn") = 1
    /\ Len(ret.v.pix) = Len(call.dist_map)

BandProfileOps == {"get_gamma_profile", "get_neutrino_profile", "get_ic_profile"}

BandMapOps == {"get_gamma_map", "get_neutrino_map", "get_ic_map"}

\* C13: the unit of what a flux, profile or map operation returns is fixed by
\* Energy_density alone: a flux is in GeV cm-2 s-1 exactly when Energy_density
\* is set and in cm-2 s-1 otherwise, on the scalar, energy-array and
\* radius-array paths; a profile and a map not normalised are in the same unit
\* per steradian; a normalised map is in sr-1.
C13_UnitFollowsEnergyDensity ==
    /\ Returned(BandFluxOps) =>
          ret.v.unit = (IF call.Energy_density THEN "GeV cm-2 s-1" ELSE "cm-2 s-1")
    /\ Returned(BandProfileOps) =>
          ret.v.unit = (IF call.Energy_density THEN "GeV cm-2 s-1 sr-1"
                        ELSE "cm-2 s-1 sr-1")
    /\ (Returned(BandMapOps) /\ ~call.Normalize) =>
          ret.v.unit = (IF call.Energy_density THEN "GeV cm-2 s-1 sr-1"
                        ELSE "cm-2 s-1 sr-1")
    /\ (Returned(PhotonMapOps) /\ call.Normalize) => ret.v.unit = "sr-1"
    /\ Called(BandFluxOps \cup BandProfileOps \cup PhotonMapOps) =>
          ret.err # "UnitConversionError"

C13_Witness ==
    /\ Returned({"get_neutrino_flux"})
    /\ call.Rmax.kind = "ndarray" /\ Len(call.Rmax.arr) = 2
    /\ call.type_integral = "cylindrical"
    /\ call.Energy_density
    /\ ret.v.unit = "GeV cm-2 s-1"

\* A normalised map of an energy flux.
C13_WitnessMap ==
    /\ Returned({"get_gamma_map"})
    /\ call.Normalize /\ call.Energy_density
    /\ ret.v.unit = "sr-1"

MapIntegral(m) == Trapz([p \in 1..Len(m.dist) |-> m.dist[p] * m.pix[p].n], m.dist)

\* The flux a normalised map was divided by.
MapFlux(m) == m.pix[1].d

\* The same map call without Normalize.
PlainTwin ==
    CASE call.op = "get_gamma_map" ->
            get_gamma_map(self, call.dist_map, call.Emin, NoneQ, call.Rmin_los, NR500, call.Rmin,
                          call.Rmax, call.Energy_density, FALSE)
      [] call.op = "get_neutrino_map" ->
            get_neutrino_map(self, call.dist_map, call.Emin, NoneQ, call.Rmin_los, NR500,
                             call.Rmin,
                             call.Rmax, call.Energy_density, FALSE, call.flavor)
      [] call.op = "get_ic_map" ->
            get_ic_map(self, call.dist_map, call.Emin, NoneQ, call.Rmin_los, NR500, call.Rmin,
                       call.Rmax, call.Energy_density, FALSE)
      [] OTHER ->
            get_synchrotron_map(self, call.dist_map, Freq0, call.Rmin_los, NR500, call.Rmin,
                                call.Rmax, FALSE)

\* The cylindrical flux of the observable between the Rmin and Rmax the map
\* operation takes.
NormFlux ==
    LET rmin == norm_Rmin(self, call.Rmin)
        rmax == norm_Rmax(self, call.Rmax, NR500)
    IN CASE call.op = "get_gamma_map" ->
               get_gamma_flux(self, call.Emin, NoneQ, call.Energy_density, rmin, rmax,
                              "cylindrical", NoneQ, NR500)
         [] call.op = "get_neutrino_map" ->
               get_neutrino_flux(self, call.Emin, NoneQ, call.Energy_density, rmin, rmax,
                                 "cylindrical", NoneQ, NR500, call.flavor)
         [] call.op = "get_ic_map" ->
               get_ic_flux(self, call.Emin, NoneQ, call.Energy_density, rmin, rmax,
                           "cylindrical", NoneQ, NR500)
         [] OTHER ->
               get_synchrotron_flux(self, Freq0, rmin, rmax, "cylindrical", NoneQ, NR500)

Built(log) == {log[b][2] : b \in Positions(log, "itpl_build")}

\* The energy integral of the interpolant from low up to emax, on the grid the
\* sampling step gives for that sub-range; the interpolant is tabulated in
\* the unit of Emin, scale of them to one GeV.
SubRangeIntegral(itpl, low, emax, Energy_density, scale) ==
    LET g == GridFrom(low, emax, GridRatio)
    IN EInt([k \in 1..Len(g) |-> ItplAt(itpl.x, itpl.y, g[k] * scale)], g, Energy_density)

\* C16: a flux call with an array Emin and a scalar Rmax that returns has
\* computed one spectrum, on the grid from the smallest element of Emin up to
\* Emax, and built one interpolant over it; it returns one entry per element
\* of Emin, in the order of Emin, and entry i is the energy integral of the
\* interpolated spectrum from Emin[i] up to Emax.
C16_EnergyArrayPath ==
    (Returned(BandFluxOps) /\ call.Emin.kind = "ndarray") =>
        LET E == call.Emin.arr
            emax == self.Epmax
        IN /\ Count(ret.log, "rate") = 1
           /\ Cardinality(Built(ret.log)) = 1
           /\ Count(ret.log, "itpl_build") = 1
           /\ Count(ret.log, "itpl_eval") = Len(E)
           /\ ret.v.shape = "array"
           /\ Len(ret.v.y) = Len(E)
           /\ \A itpl \in Built(ret.log) :
                 /\ itpl.x = [k \in 1..Len(GridFrom(SeqMin(E), emax, GridRatio)) |->
                              GridFrom(SeqMin(E), emax, GridRatio)[k] * call.Emin.scale]
                 /\ \A i \in 1..Len(E) :
                       ret.v.y[i] = SubRangeIntegral(itpl, E[i], emax, call.Energy_density,
                                                     call.Emin.scale)

C16_Witness ==
    /\ Returned({"get_ic_flux"})
    /\ call.Emin = Array(<<3, 1>>)
    /\ call.Rmax.kind = "float"
    /\ Len(ret.v.y) = 2
    /\ ret.v.y[1] # ret.v.y[2]

\* A flux call with an array Rmax that returned.
RadiusArrayReturned == Returned(FluxOps) /\ call.Rmax.kind = "ndarray"

\* The rate, integrated over the energies, at the composite radius q (100 r^2),
\* as the call evaluated it: the rate function and flavor are those of its
\* one rate call, absorbed when the call asked for the absorption.
RadiusRate(q) ==
    LET site == The({ret.log[i][2] : i \in Positions(ret.log, "rate")})
    IN IF call.op = "get_synchrotron_flux"
       THEN RateAt(site.fn, site.flavor, const_h * Freq0, q)
       ELSE LET eng == GridFrom(OrDefault(call.Emin, self.Epmin \div 10), self.Epmax,
                                GridRatio)
                absorb == get_ebl_absorb(eng, self.redshift, self.EBL_model).v
            IN EInt([i \in 1..Len(eng) |->
                        RateAt(site.fn, site.flavor, eng[i], q)
                            * (IF Count(ret.log, "absorb") = 1 THEN absorb[i] ELSE 1)],
                    eng, call.Energy_density)

\* The factor of the synchrotron flux, eng0^2 / freq0.
SedFactor(x) ==
    IF call.op = "get_synchrotron_flux"
    THEN (x * (const_h * Freq0) * (const_h * Freq0)) \div Freq0
    ELSE x

\* The volume integral of the interpolated rate from Rmin to R, as a flux.
SphericalEntry(R) ==
    LET x == GridFrom(self.Rmin, SeqMax(call.Rmax.arr), GridRatio)
        y == [j \in 1..Len(x) |-> RadiusRate(Sq100(x[j]))]
        g == GridFrom(self.Rmin, R, GridRatio)
    IN ToFlux(self, SphInt([k \in 1..Len(g) |-> ItplAt(x, y, g[k])], g))

\* The bounds of the 3D grid of the cylindrical case, as 100 r^2.
CylinderGrid ==
    <<(Hyp2(self.Rmin, self.Rmin) * 81) \div 100,
      (Hyp2(NR500 * self.R500, SeqMax(call.Rmax.arr)) * 121) \div 100>>

\* The disk integral, from Rmin to R, of the interpolated projection of the
\* rate, the projection being converted to a flux.
CylindricalEntry(R) ==
    LET r3d == GridFrom(CylinderGrid[1], CylinderGrid[2], GridRatio * GridRatio)
        dN == [j \in 1..Len(r3d) |-> RadiusRate(r3d[j])]
        los == GridFrom(self.Rmin, NR500 * self.R500, GridRatio)
        x == GridFrom(self.Rmin, SeqMax(call.Rmax.arr), GridRatio)
        proj == LosProj(dN, r3d, x, los)
        y == [a \in 1..Len(x) |->
                 ToFlux(self, IF Outside(x[a], self.R_truncation) THEN 0 ELSE proj[a])]
        g == GridFrom(self.Rmin, R, GridRatio)
    IN Trapz([k \in 1..Len(g) |-> g[k] * ItplAt(x, y, g[k])], g)

\* The grids a call built.
Grids(log) == {log[i][2] : i \in Positions(log, "grid")}

\* C17: a flux call with an array Rmax and a scalar Emin that returns has
\* evaluated the rate once, on one 3D grid that reaches the largest element
\* of Rmax, and returns one entry per element of Rmax, in the order of Rmax;
\* entry i is the integral from Rmin to Rmax[i] of the interpolated rate, over
\* the volume for 'spherical' and over the disk of the projected rate for
\* 'cylindrical', converted to a flux by the same factor in both.
C17_RadiusArrayPath ==
    RadiusArrayReturned =>
        LET R == call.Rmax.arr
            spherical == call.type_integral = "spherical"
        IN /\ Count(ret.log, "rate") = 1
           /\ IF spherical
              THEN <<self.Rmin, SeqMax(R)>> \in Grids(ret.log)
              ELSE CylinderGrid \in Grids(ret.log) /\ CylinderGrid[2] >= Sq100(SeqMax(R))
           /\ ret.v.shape = "array"
           /\ Len(ret.v.y) = Len(R)
           /\ \A i \in 1..Len(R) :
                 ret.v.y[i] = SedFactor(IF spherical THEN SphericalEntry(R[i])
                                        ELSE CylindricalEntry(R[i]))

C17_Witness ==
    /\ RadiusArrayReturned
    /\ call.op = "get_gamma_flux"
    /\ call.type_integral = "cylindrical"
    /\ call.Rmax = Array(<<8, 6>>)
    /\ ret.v.y[1] # ret.v.y[2]

C17_WitnessSpherical ==
    /\ RadiusArrayReturned
    /\ call.op = "get_synchrotron_flux"
    /\ call.type_integral = "spherical"
    /\ call.Rmax = Array(<<6, 8>>)
    /\ ret.v.y[1] # ret.v.y[2]

\* The interpolants over projected radius that the cylindrical radius-array
\* case of a call built, by their place in the log.
ProjectedBuilds ==
    {b \in Positions(ret.log, "itpl_build") :
        ret.log[b][2].x = GridFrom(self.Rmin, SeqMax(call.Rmax.arr), GridRatio)}

\* C18: in the cylindrical radius-array case of a flux operation, the
\* projected profile is zeroed beyond R_truncation before the interpolant over
\* projected radius is built: the truncation comes first in the call, the
\* samples the interpolant is built from are zero beyond R_truncation, and a
\* call that returns has truncated once and built one such interpolant.
C18_TruncatedBeforeInterpolant ==
    (Called(FluxOps) /\ call.Rmax.kind = "ndarray" /\ call.type_integral = "cylindrical") =>
        /\ \A b \in ProjectedBuilds :
              /\ \E c \in Positions(ret.log, "trunc") : c < b
              /\ \A c \in Positions(ret.log, "trunc") : c < b
              /\ \A a \in 1..Len(ret.log[b][2].x) :
                    Outside(ret.log[b][2].x[a], self.R_truncation)
                        => ret.log[b][2].y[a] = 0
        /\ ret.err = "none" =>
              (Cardinality(ProjectedBuilds) = 1 /\ Count(ret.log, "trunc") = 1)

C18_Witness ==
    /\ Returned({"get_neutrino_flux"})
    /\ call.Rmax = Array(<<6, 8>>)
    /\ call.type_integral = "cylindrical"
    /\ ~self.R_truncation.inf
    /\ \E b \in ProjectedBuilds :
          /\ \E a \in 1..Len(ret.log[b][2].x) :
                Outside(ret.log[b][2].x[a], self.R_truncation)
          /\ \E a \in 1..Len(ret.log[b][2].x) : ret.log[b][2].y[a] # 0

\* The same flux call with the largest element of the Rmax array as a scalar.
LargestTwin ==
    LET top == Float(SeqMax(call.Rmax.arr))
    IN CASE call.op = "get_gamma_flux" ->
               get_gamma_flux(self, call.Emin, NoneQ, call.Energy_density, NoneQ, top,
                              call.type_integral, NoneQ, NR500)
         [] call.op = "get_neutrino_flux" ->
               get_neutrino_flux(self, call.Emin, NoneQ, call.Energy_density, NoneQ, top,
                                 call.type_integral, NoneQ, NR500, call.flavor)
         [] call.op = "get_ic_flux" ->
               get_ic_flux(self, call.Emin, NoneQ, call.Energy_density, NoneQ, top,
                           call.type_integral, NoneQ, NR500)
         [] OTHER ->
               get_synchrotron_flux(self, Freq0, NoneQ, top, call.type_integral, NoneQ, NR500)

\* The bounds of the 3D-radius grid of a cylindrical flux call: the grid built
\* after the energy grid (the synchrotron flux has no energy grid).
Grid3d(log) ==
    LET n == IF call.op = "get_synchrotron_flux" THEN 1 ELSE 2
        at == CHOOSE i \in Positions(log, "grid") :
                  Cardinality({j \in Positions(log, "grid") : j <= i}) = n
    IN log[at][2]

\* A cylindrical flux call with an array Rmax and a float or defaulted Emin.
CylindricalArrayCall ==
    /\ Called(FluxOps)
    /\ call.type_integral = "cylindrical"
    /\ call.Rmax.kind = "ndarray"
    /\ call.Emin.kind \in {"None", "float"}

\* C19, as stated: the 3D-radius range of a cylindrical flux call with an array
\* Rmax differs from the range of the scalar call with the largest element of
\* the array as Rmax and the same Rmin, Rmin_los and NR500_los.
C19_RangesDiffer ==
    CylindricalArrayCall => Grid3d(ret.log) # Grid3d(LargestTwin.log)

\* C19, amended: the two ranges are the same, from 0.9 sqrt(Rmin_los^2 +
\* Rmin^2) to 1.1 sqrt((NR500_los R500)^2 + max(Rmax)^2): the array case puts
\* the margins in the bounds, the scalar case in the call of the sampling.
C19_RangesAgree ==
    CylindricalArrayCall =>
        /\ Count(ret.log, "grid") >= 2
        /\ Count(LargestTwin.log, "grid") >= 2
        /\ Grid3d(ret.log) = Grid3d(LargestTwin.log)
        /\ Grid3d(ret.log) =
              <<(Hyp2(self.Rmin, self.Rmin) * 81) \div 100,
                (Hyp2(NR500 * self.R500, SeqMax(call.Rmax.arr)) * 121) \div 100>>

C19_Witness ==
    /\ CylindricalArrayCall
    /\ call.op = "get_gamma_flux"
    /\ call.Rmax = Array(<<6, 8>>)
    /\ ret.err = "none"
    /\ LargestTwin.err = "none"
    /\ Grid3d(ret.log) = <<162, 15488>>

\* A flux call with an array bound, the other bound a float or defaulted.
ArrayQuery ==
    \/ call.Rmax.kind = "ndarray" /\ call.Emin.kind \in {"None", "float"}
    \/ call.Emin.kind = "ndarray" /\ call.Rmax.kind \in {"None", "float"}

\* C20: a flux call on an array bound applies the absorption exactly when the
\* call of the same operation on scalar bounds, on the same cluster, applies
\* it; and no path of get_neutrino_flux applies it.
C20_AbsorptionWhateverShape ==
    (Returned(FluxOps) /\ ArrayQuery) =>
        /\ ScalarTwin.err = "none" =>
              Count(ret.log, "absorb") = Count(ScalarTwin.log, "absorb")
        /\ call.op = "get_neutrino_flux" => Count(ret.log, "absorb") = 0

\* C21: every rate evaluation of a get_neutrino_flux or get_neutrino_map call,
\* the evaluation of the normalising flux included, is an evaluation of the
\* neutrino rate with the flavor the call was given, and a call that returns
\* has made one.
C21_FlavorOnEveryPath ==
    Called({"get_neutrino_flux", "get_neutrino_map"}) =>
        /\ RateSites(ret.log) \subseteq {<<"get_rate_neutrino", call.flavor>>}
        /\ ret.err = "none" => RateSites(ret.log) # {}

\* The rate functions a call evaluated.
RateFns(log) == {log[i][2].fn : i \in Positions(log, "rate")}

\* The rate functions the spectrum and the profile operation of the observable
\* of the call evaluate.
ObservableFns ==
    CASE call.op = "get_gamma_flux" ->
            RateFns(get_gamma_spectrum(self, <<2>>, NoneQ, NoneQ, "spherical", NoneQ, NR500).log)
                \cup RateFns(get_gamma_profile(self, <<2>>, NoneQ, NoneQ, FALSE, NoneQ, NR500).log)
      [] call.op = "get_neutrino_flux" ->
            RateFns(get_neutrino_spectrum(self, <<2>>, NoneQ, NoneQ, "spherical", NR500, NoneQ,
                                          call.flavor).log)
                \cup RateFns(get_neutrino_profile(self, <<2>>, NoneQ, NoneQ, FALSE, NoneQ, NR500,
                                                  call.flavor).log)
      [] call.op = "get_ic_flux" ->
            RateFns(get_ic_spectrum(self, <<2>>, NoneQ, NoneQ, "spherical", NoneQ, NR500).log)
                \cup RateFns(get_ic_profile(self, <<2>>, NoneQ, NoneQ, FALSE, NoneQ, NR500).log)
      [] OTHER ->
            RateFns(get_synchrotron_spectrum(self, <<2>>, NoneQ, NoneQ, "spherical", NoneQ,
                                             NR500).log)
                \cup RateFns(get_synchrotron_profile(self, <<2>>, Freq0, NoneQ, NR500).log)

\* C22: the spectrum and the profile operation of an observable evaluate one
\* rate function, and every path of its flux operation evaluates that one: a
\* flux call names no other rate function, and one that returns has
\* evaluated it.
C22_SameRateFunction ==
    Called(FluxOps) =>
        /\ Cardinality(ObservableFns) = 1
        /\ RateFns(ret.log) \subseteq ObservableFns
        /\ ret.err # "AttributeError"
        /\ ret.err = "none" => RateFns(ret.log) = ObservableFns

\* The bounds the normalising flux is to take: the Rmin and Rmax given, else
\* the cluster's Rmin, and R_truncation when it is finite, NR500_los R500 when
\* it is infinite.
NormRmin == IF call.Rmin.kind = "None" THEN Float(self.Rmin) ELSE call.Rmin

NormRmax ==
    IF call.Rmax.kind # "None" THEN call.Rmax
    ELSE IF self.R_truncation.inf THEN Float(NR500 * self.R500)
    ELSE Float(self.R_truncation.v)

\* The cylindrical flux of the observable of a map call between those bounds.
FluxWithin(rmin, rmax) ==
    CASE call.op = "get_gamma_map" ->
            get_gamma_flux(self, call.Emin, NoneQ, call.Energy_density, rmin, rmax,
                           "cylindrical", NoneQ, NR500)
      [] call.op = "get_neutrino_map" ->
            get_neutrino_flux(self, call.Emin, NoneQ, call.Energy_density, rmin, rmax,
                              "cylindrical", NoneQ, NR500, call.flavor)
      [] call.op = "get_ic_map" ->
            get_ic_flux(self, call.Emin, NoneQ, call.Energy_density, rmin, rmax,
                        "cylindrical", NoneQ, NR500)
      [] OTHER ->
            get_synchrotron_flux(self, Freq0, rmin, rmax, "cylindrical", NoneQ, NR500)

\* C23: a map call with Normalize set whose map not normalised can be computed
\* ends as the cylindrical flux between the bounds above ends, and a map it
\* returns is the map not normalised divided by that flux: the flux within
\* R_truncation when Rmax is not given and R_truncation is finite, within
\* NR500_los R500 when R_truncation is infinite, from the cluster's Rmin when
\* Rmin is not given, and between the Rmin and Rmax given otherwise.
C23_NormaliseDefaults ==
    (Called(PhotonMapOps) /\ call.Normalize /\ PlainTwin.err = "none") =>
        LET F == FluxWithin(NormRmin, NormRmax)
        IN /\ ret.err = F.err
           /\ ret.err = "none" =>
                 \A p \in 1..Len(call.dist_map) :
                     ret.v.pix[p] = NumDiv(PlainTwin.v.pix[p], Num(F.v.y[1]))

\* The cylindrical flux of the observable of a map call, between the bounds
\* the call normalises within, with the energy bounds, the Energy_density and
\* the line-of-sight settings of the profile of the call.
FluxOfProfile ==
    LET rmin == norm_Rmin(self, call.Rmin)
        rmax == norm_Rmax(self, call.Rmax, NR500)
    IN CASE call.op = "get_gamma_map" ->
               get_gamma_flux(self, call.Emin, NoneQ, call.Energy_density, rmin, rmax,
                              "cylindrical", call.Rmin_los, NR500)
         [] call.op = "get_neutrino_map" ->
               get_neutrino_flux(self, call.Emin, NoneQ, call.Energy_density, rmin, rmax,
                                 "cylindrical", call.Rmin_los, NR500, call.flavor)
         [] call.op = "get_ic_map" ->
               get_ic_flux(self, call.Emin, NoneQ, call.Energy_density, rmin, rmax,
                           "cylindrical", call.Rmin_los, NR500)
         [] OTHER ->
               get_synchrotron_flux(self, Freq0, rmin, rmax, "cylindrical", call.Rmin_los,
                                    NR500)

\* The grids, energy integrals and line-of-sight integrals of the normalising
\* flux of a map call: what the log holds after the truncation of the map.
AfterMap(log) ==
    LET cut == CHOOSE i \in Positions(log, "trunc_map") : TRUE
    IN SubSeq(log, cut + 1, Len(log))

Settings(log) ==
    {log[i] : i \in Positions(log, "grid") \cup Positions(log, "eint")
                      \cup Positions(log, "cylint")}

\* C24: the normalising flux of a map call that returns is the flux computed
\* with the Emin, Emax, Energy_density, Rmin_los and NR500_los of the profile
\* of the call: it builds the same grids and integrates between the same
\* bounds, and the map is the map not normalised divided by it.
C24_FluxWithProfileSettings ==
    (Returned(PhotonMapOps) /\ call.Normalize) =>
        LET F == FluxOfProfile
        IN /\ F.err = "none"
           /\ Settings(AfterMap(ret.log)) = Settings(F.log)
           /\ \A p \in 1..Len(call.dist_map) :
                 ret.v.pix[p] = NumDiv(PlainTwin.v.pix[p], Num(F.v.y[1]))

\* The projected-radius grid of a map call, as the operation of the call
\* builds it from the pixels.
MapGrid ==
    IF call.op \in PhotonMapOps THEN map_radius(self, call.dist_map)
    ELSE thermal_radius(self, call.dist_map)

\* C25: every map call builds its projected-radius grid from a strictly
\* positive lower bound, a pixel at the cluster centre included: the sampling
\* step is not refused, the grid starts above zero, and a photon map call has
\* asked the sampling step for that grid.
C25_PositiveLowerBound ==
    Called(MapOps) =>
        /\ MapGrid.err = "none"
        /\ MapGrid.v[1] > 0
        /\ call.op \in PhotonMapOps =>
              \E i \in Positions(ret.log, "grid") :
                  ret.log[i][2] = <<MapGrid.v[1], MapGrid.v[Len(MapGrid.v)]>>

\* The bounds of the n-th grid a call built.
NthGrid(log, n) ==
    LET at == CHOOSE i \in Positions(log, "grid") :
                  Cardinality({j \in Positions(log, "grid") : j <= i}) = n
    IN log[at][2]

\* A flux call on an empty range of radii, which the sampling step refuses
\* before anything is projected.
EmptyRange == call.op \in FluxOps /\ call.Rmax = Float(self.Rmin)

\* A call that projects the rate along the line of sight.
LosProjection ==
    \/ Called(PhotonProfileOps)
    \/ Called(SpectrumOps \cup FluxOps) /\ call.type_integral = "cylindrical" /\ ~EmptyRange

\* The place of the 3D-radius grid among the grids of such a call: the first
\* grid of a spectrum and of a synchrotron call, else the one after the
\* energy grid.  The grid of the depths comes next.
Place3d ==
    IF call.op \in SpectrumOps \cup {"get_synchrotron_profile", "get_synchrotron_flux"}
    THEN 1 ELSE 2

\* The smallest and the largest projected radius of the call: those of the
\* radius argument of a profile, else the bounds of the projected-radius grid,
\* which is built after the grid of the depths.
QueryRange ==
    IF call.op \in PhotonProfileOps THEN <<SeqMin(call.radius), SeqMax(call.radius)>>
    ELSE NthGrid(ret.log, Place3d + 2)

\* C26: a call that projects along the line of sight is never refused for a
\* composite radius out of the sampled range, and in one that returns the 3D
\* grid (as 100 r^2) starts at or below Rmin_query^2 + Rmin_los^2 and ends at
\* or above Rmax_query^2 + (NR500_los R500)^2, the depths going from Rmin_los
\* to NR500_los R500: every composite radius of the projection is inside it.
C26_GridCoversComposite ==
    LosProjection =>
        /\ ret.err # "DomainError"
        /\ ret.err = "none" =>
              LET g3 == NthGrid(ret.log, Place3d)
                  gl == NthGrid(ret.log, Place3d + 1)
                  R == QueryRange
              IN /\ Count(ret.log, "los") + Count(ret.log, "cylint") = 1
                 /\ gl = <<self.Rmin, NR500 * self.R500>>
                 /\ g3[1] <= Sq100(R[1]) + Sq100(gl[1])
                 /\ g3[2] >= Sq100(R[2]) + Sq100(gl[2])
                 /\ \A a \in {R[1], R[2]} : \A l \in {gl[1], gl[2]} :
                       g3[1] <= Sq100(a) + Sq100(l) /\ Sq100(a) + Sq100(l) <= g3[2]

\* A cylindrical flux on an array of outer radii, and a profile on radii given
\* in decreasing order.
C26_Witness ==
    /\ Returned({"get_ic_profile"})
    /\ call.radius = <<6, 2>>
    /\ Count(ret.log, "los") = 1
    /\ NthGrid(ret.log, 2)[1] < Sq100(2) + Sq100(self.Rmin)
    /\ NthGrid(ret.log, 2)[2] > Sq100(6) + Sq100(NR500 * self.R500)

C26_WitnessFlux ==
    /\ Returned({"get_gamma_flux"})
    /\ call.type_integral = "cylindrical"
    /\ call.Rmax = Array(<<6, 8>>)
    /\ Count(ret.log, "los") = 1
    /\ NthGrid(ret.log, 2)[2] > Sq100(8) + Sq100(NR500 * self.R500)

\* The interpolant an evaluation at place e of the log is made on: the last one
\* built before it.
BuiltBefore(log, e) ==
    LET b == CHOOSE i \in Positions(log, "itpl_build") :
                 i < e /\ \A j \in Positions(log, "itpl_build") : j < e => j <= i
    IN log[b][2]

\* The elements of the array bound of a flux call.
ArrayBound == IF call.Emin.kind = "ndarray" THEN call.Emin.arr ELSE call.Rmax.arr

\* C27: a flux call on an array bound, with a valid type_integral, is never
\* refused by an interpolant for a point out of its domain: every grid it
\* resamples an interpolant on, from Emin[i] to Emax or from Rmin to Rmax[i],
\* lies between the first and the last knot of that interpolant, and a call
\* that returns has resampled once per element.
C27_ResamplingInsideDomain ==
    (Called(FluxOps) /\ call.type_integral \in ValidTypes /\ ArrayQuery) =>
        /\ ret.err # "ValueError"
        /\ \A e \in Positions(ret.log, "itpl_eval") :
              /\ \E b \in Positions(ret.log, "itpl_build") : b < e
              /\ LET itpl == BuiltBefore(ret.log, e)
                     xs == ret.log[e][2]
                 IN \A a \in 1..Len(xs) :
                       itpl.x[1] <= xs[a] /\ xs[a] <= itpl.x[Len(itpl.x)]
        /\ ret.err = "none" => Count(ret.log, "itpl_eval") = Len(ArrayBound)

\* The elements are given in decreasing order: the second grid starts below
\* the first element, at the lower end of the interpolant.
C27_Witness ==
    /\ Returned({"get_gamma_flux"})
    /\ call.Emin = Array(<<3, 1>>)
    /\ Count(ret.log, "itpl_eval") = 2
    /\ \E e \in Positions(ret.log, "itpl_eval") :
          ret.log[e][2][1] = 1 /\ BuiltBefore(ret.log, e).x[1] = 1

C27_WitnessRadius ==
    /\ Returned({"get_synchrotron_flux"})
    /\ call.Rmax = Array(<<6, 8>>)
    /\ call.type_integral = "cylindrical"
    /\ Count(ret.log, "itpl_eval") = 2
    /\ Count(ret.log, "itpl_build") = 2

\* The places of the log where the knots of an interpolant are converted to
\* bare numbers: the conversions an interp1d follows at once.
KnotConversions(log) ==
    {b \in Positions(log, "to_value") : b < Len(log) /\ log[b + 1][1] = "itpl_build"}

\* The unit of the knots of the interpolant in use at place e of the log.
KnotUnit(log, e) ==
    LET b == CHOOSE i \in KnotConversions(log) :
                 i < e /\ \A j \in KnotConversions(log) : j < e => j <= i
    IN log[b][2]

\* C28: in a flux call on an array bound, whatever the unit the bounds are
\* given in, every grid an interpolant is evaluated on is converted to the
\* unit the knots of that interpolant were converted to.
C28_AbscissaeInKnotUnit ==
    (Called(FluxOps) /\ call.type_integral \in ValidTypes /\ ArrayQuery) =>
        \A e \in Positions(ret.log, "to_value") \ KnotConversions(ret.log) :
            /\ \E b \in KnotConversions(ret.log) : b < e
            /\ ret.log[e][2] = KnotUnit(ret.log, e)

ThermalMapOps == {"get_ymap", "get_sxmap"}

\* The profile a thermal map is made from: that of the profile operation, on
\* the projected radii of the pixels.
ThermalProfile ==
    LET radius == thermal_radius(self, call.dist_map).v
    IN IF call.op = "get_ymap" THEN get_y_compton_profile(self, radius, NR500).v
       ELSE get_sx_profile(self, call.table, radius, NR500, call.output_type).v

\* The profile interpolated at the pixels, the pixels strictly beyond
\* theta_truncation set to zero.
TruncatedOnMap ==
    LET p == ThermalProfile
        onmap == profile2map_num(p.y, [a \in 1..Len(p.x) |-> p.x[a] \div self.D_ang],
                                 call.dist_map).v
    IN [q \in 1..Len(call.dist_map) |->
           IF Outside(call.dist_map[q], self.theta_truncation) THEN Num(0) ELSE onmap[q]]

\* C29: a thermal map (get_ymap, get_sxmap) that returns has interpolated the
\* profile onto the map once and truncated it once, in that order.  Without
\* FWHM nothing is smoothed and the pixels are exactly the truncated
\* interpolated values.  With FWHM the smoothing is the last step of the call,
\* after the interpolation and the truncation, and the pixels are the smoothed
\* truncated interpolated values.
C29_BeamSmoothingLast ==
    Returned(ThermalMapOps) =>
        /\ Count(ret.log, "profile2map") = 1
        /\ Count(ret.log, "trunc_map") = 1
        /\ The(Positions(ret.log, "profile2map")) < The(Positions(ret.log, "trunc_map"))
        /\ call.FWHM = "None" =>
              /\ Count(ret.log, "smooth") = 0
              /\ ret.v.pix = TruncatedOnMap
        /\ call.FWHM # "None" =>
              /\ Positions(ret.log, "smooth") = {Len(ret.log)}
              /\ The(Positions(ret.log, "trunc_map")) < Len(ret.log)
              /\ ret.v.pix = gaussian_filter(TruncatedOnMap).v

\* A beam is given and spreads the signal onto a pixel beyond the truncation.
C29_Witness ==
    /\ Returned({"get_ymap"})
    /\ call.FWHM # "None"
    /\ \E q \in 1..Len(ret.v.dist) :
          /\ Outside(ret.v.dist[q], self.theta_truncation)
          /\ ~IsZero(ret.v.pix[q]) /\ ~IsNaN(ret.v.pix[q])
          /\ IsZero(TruncatedOnMap[q])

\* No beam: the map holds a zeroed pixel and a non-zero one.
C29_WitnessNoBeam ==
    /\ Returned({"get_sxmap"})
    /\ call.FWHM = "None"
    /\ \E q \in 1..Len(ret.v.dist) :
          Outside(ret.v.dist[q], self.theta_truncation) /\ IsZero(ret.v.pix[q])
    /\ \E q \in 1..Len(ret.v.dist) : ~IsZero(ret.v.pix[q]) /\ ~IsNaN(ret.v.pix[q])

\* The flux calls that ask the spectrum operation for a spectrum: scalar
\* bounds, or an array Emin with a scalar Rmax.
AsksSpectrum ==
    /\ Called(BandFluxOps)
    /\ call.type_integral \in ValidTypes
    /\ call.Rmax.kind \in {"None", "float"}
    /\ call.Emin.kind \in {"None", "float", "ndarray"}

\* The energies a flux call hands to the spectrum operation.
SpectrumEnergies ==
    LET Emin == Defaulted(call.Emin, self.Epmin \div 10)
    IN sampling_array(IF Emin.kind = "ndarray" THEN SeqMin(Emin.arr) ELSE Emin.val,
                      OrDefault(call.Emax, self.Epmax))

\* The spectrum operation as the flux call calls it.
NestedSpectrum ==
    LET Rmin == Defaulted(call.Rmin, self.Rmin)
        Rmax == Defaulted(call.Rmax, self.R500)
        Rmin_los == Float(self.Rmin)
        energy == SpectrumEnergies.v
    IN CASE call.op = "get_gamma_flux" ->
               get_gamma_spectrum(self, energy, Rmin, Rmax, call.type_integral, Rmin_los, NR500)
         [] call.op = "get_neutrino_flux" ->
               get_neutrino_spectrum(self, energy, Rmin, Rmax, call.type_integral, NR500,
                                     Rmin_los, call.flavor)
         [] OTHER ->
               get_ic_spectrum(self, energy, Rmin, Rmax, call.type_integral, Rmin_los, NR500)

\* The profile operation as a map call calls it.
NestedProfile ==
    LET radius == MapGrid.v
    IN CASE call.op = "get_gamma_map" ->
               get_gamma_profile(self, radius, call.Emin, NoneQ, call.Energy_density,
                                 call.Rmin_los, NR500)
         [] call.op = "get_neutrino_map" ->
               get_neutrino_profile(self, radius, call.Emin, NoneQ, call.Energy_density,
                                    call.Rmin_los, NR500, call.flavor)
         [] call.op = "get_ic_map" ->
               get_ic_profile(self, radius, call.Emin, NoneQ, call.Energy_density,
                              call.Rmin_los, NR500)
         [] call.op = "get_synchrotron_map" ->
               get_synchrotron_profile(self, radius, Freq0, call.Rmin_los, NR500)
         [] call.op = "get_ymap" -> get_y_compton_profile(self, radius, NR500)
         [] OTHER -> get_sx_profile(self, call.table, radius, NR500, call.output_type)

\* The call fails with the error e and returns nothing.
FailsWith(e) == ret.err = e /\ ret.v = NoVal

\* C30: the error of a nested operation is the error of the operation that
\* called it, which returns nothing.  A flux call whose spectrum operation
\* fails, fails with that error; a map call whose profile operation fails,
\* fails with that error; a normalised map call whose profile is computed and
\* whose normalising flux fails, fails with the error of the flux.
C30_NestedErrorsPropagate ==
    /\ (AsksSpectrum /\ SpectrumEnergies.err = "none" /\ NestedSpectrum.err # "none")
           => FailsWith(NestedSpectrum.err)
    /\ (Called(MapOps) /\ MapGrid.err = "none" /\ NestedProfile.err # "none")
           => FailsWith(NestedProfile.err)
    /\ (Called(PhotonMapOps) /\ call.Normalize /\ MapGrid.err = "none"
           /\ NestedProfile.err = "none" /\ NormFlux.err # "none")
           => FailsWith(NormFlux.err)

\* The spectrum operation of a flux call on scalar bounds fails.
C30_Witness ==
    /\ AsksSpectrum
    /\ call.Emin.kind # "ndarray"
    /\ SpectrumEnergies.err = "none"
    /\ NestedSpectrum.err # "none"
    /\ ret.err = NestedSpectrum.err

\* The profile of a normalised map is computed and its normalising flux fails.
C30_WitnessFlux ==
    /\ Called(PhotonMapOps)
    /\ call.Normalize
    /\ MapGrid.err = "none"
    /\ NestedProfile.err = "none"
    /\ NormFlux.err # "none"
    /\ ret.err = NormFlux.err

\* The profile of a map fails.
C30_WitnessProfile ==
    /\ Called(MapOps)
    /\ MapGrid.err = "none"
    /\ NestedProfile.err # "none"
    /\ ret.err = NestedProfile.err

====
